---- MODULE Spec2Model ----
(***************************************************************************)
(* Voice financial assistant: the extraction engine (data_extractor.py),   *)
(* the question classifier (query_analyzer.py) and the CSV ledger          *)
(* (csv_manager.py, voice_assistant.py).                                   *)
(*                                                                         *)
(* A text is the sequence of its maximal runs ("atoms"): a run of letters  *)
(* (k = "w"), a run of digits (k = "n", d = its digits), one other         *)
(* non-blank character (k = "c") or one blank (k = "s").  Two letter runs  *)
(* or two digit runs are never adjacent.  Regular expressions of the       *)
(* source are translated to scans over atoms; \b holds between two atoms   *)
(* unless both are letter or digit runs.                                   *)
(***************************************************************************)
EXTENDS Integers, Sequences, FiniteSets, TLC

VARIABLES
    now,        \* datetime.now(): [y, m, d]
    padYear,    \* does the platform's strftime("%Y") pad a year to 4 digits
    ledger,     \* the data rows of financial_records.csv, in file order
    op,         \* the operation that ran last
    arg,        \* its input
    ret,        \* what it returned
    calls,      \* the calls in flight: for save_record caller -> [pc, record],
                \* for a transcription the position and counters of the call
    header,     \* what stands before the data rows: "header" (the expected
                \* header line, as the constructor leaves it), "no_header",
                \* "empty" (a file of no lines) or "no_file"
    temp        \* the temporary audio files on disk

vars == <<now, padYear, ledger, op, arg, ret, calls, header, temp>>

\* ------------------------------------------------------------------ bounds
MaxPhraseLen == 4
MaxAmountItems == 2
MaxDateItems == 2
MaxQueryItems == 2
MaxLedger == 3
MaxCallers == 2
MaxSummaryRecords == 2
MaxTypeItems == 2
MaxFileRecords == 2

\* ------------------------------------------------------------------ atoms
W(s) == [k |-> "w", s |-> s, d |-> <<>>]
N(ds) == [k |-> "n", s |-> "", d |-> ds]
C(s) == [k |-> "c", s |-> s, d |-> <<>>]
SP == [k |-> "s", s |-> " ", d |-> <<>>]

IsW(a) == a.k = "w"
IsN(a) == a.k = "n"
IsSp(a) == a.k = "s"
IsC(a, ch) == a.k = "c" /\ a.s = ch

RECURSIVE IntOf(_)
\* int("0123"): the value of a digit run
IntOf(ds) == IF ds = <<>> THEN 0 ELSE 10 * IntOf(SubSeq(ds, 1, Len(ds) - 1)) + ds[Len(ds)]

RECURSIVE StrOf(_)
\* str(n) for n >= 0: the digits of n, no leading zero
StrOf(n) == IF n < 10 THEN <<n>> ELSE Append(StrOf(n \div 10), n % 10)

\* str.lower() on a letter run
LowerWord(s) ==
    CASE s = "Today" -> "today"
      [] s = "Profit" -> "profit"
      [] s = "LOSS" -> "loss"
      [] s = "How" -> "how"
      [] s = "August" -> "august"
      [] s = "Generate" -> "generate"
      [] s = "I" -> "i"
      [] OTHER -> s

lower(t) == [i \in 1..Len(t) |-> IF IsW(t[i]) THEN W(LowerWord(t[i].s)) ELSE t[i]]

\* the atom at position i, or a blank outside the text (start and end of text
\* behave like a non-word character for \b)
At(t, i) == IF i \in 1..Len(t) THEN t[i] ELSE SP

\* \b(word)\b at position i
WordAt(t, i, ws) ==
    /\ i \in 1..Len(t)
    /\ IsW(t[i]) /\ t[i].s \in ws
    /\ ~IsN(At(t, i - 1)) /\ ~IsN(At(t, i + 1))

HasWord(t, ws) == \E i \in 1..Len(t) : WordAt(t, i, ws)

\* the least element of a non-empty set of positions
Min(S) == CHOOSE i \in S : \A j \in S : i <= j

\* the start of the leftmost match of re.search, or 0 without a match
Leftmost(S) == IF S = {} THEN 0 ELSE Min(S)

\* a letter run that is one of the words ws
IsWordIn(a, ws) == IsW(a) /\ a.s \in ws

\* ------------------------------------------------------------------ calendar
IsLeap(y) == (y % 4 = 0 /\ y % 100 # 0) \/ y % 400 = 0

DaysInMonth(y, m) ==
    IF m = 2 THEN (IF IsLeap(y) THEN 29 ELSE 28)
    ELSE IF m \in {4, 6, 9, 11} THEN 30 ELSE 31

\* datetime(y, m, d) raises ValueError unless this holds
ValidDate(y, m, d) == y \in 1..9999 /\ m \in 1..12 /\ d \in 1..DaysInMonth(y, m)

NoDate == [y |-> 0, m |-> 0, d |-> 0, yw |-> 0]

\* strftime("%Y-%m-%d"): month and day are two digits; the year is four digits
\* where the platform pads it and as many digits as it has where it does not
strftime(y, m, d) ==
    [y |-> y, m |-> m, d |-> d, yw |-> IF padYear THEN 4 ELSE Len(StrOf(y))]

\* today - timedelta(days=1)
DayBefore(t) ==
    IF t.d > 1 THEN [y |-> t.y, m |-> t.m, d |-> t.d - 1]
    ELSE IF t.m > 1 THEN [y |-> t.y, m |-> t.m - 1, d |-> DaysInMonth(t.y, t.m - 1)]
    ELSE [y |-> t.y - 1, m |-> 12, d |-> 31]

\* today + timedelta(days=1)
DayAfter(t) ==
    IF t.d < DaysInMonth(t.y, t.m) THEN [y |-> t.y, m |-> t.m, d |-> t.d + 1]
    ELSE IF t.m < 12 THEN [y |-> t.y, m |-> t.m + 1, d |-> 1]
    ELSE [y |-> t.y + 1, m |-> 1, d |-> 1]

month_names ==
    [s \in {"january", "february", "march", "april", "may", "june", "july", "august",
            "september", "october", "november", "december"} |->
        CASE s = "january" -> 1 [] s = "february" -> 2 [] s = "march" -> 3
          [] s = "april" -> 4 [] s = "may" -> 5 [] s = "june" -> 6
          [] s = "july" -> 7 [] s = "august" -> 8 [] s = "september" -> 9
          [] s = "october" -> 10 [] s = "november" -> 11 [] s = "december" -> 12]

\* year = int(year); if year < 100: year += 2000 if year < 50 else 1900
TwoDigitYear(y) == IF y < 100 THEN (IF y < 50 THEN y + 2000 ELSE y + 1900) ELSE y

\* ------------------------------------------------------------------ spoken numbers
units ==
    [s \in {"zero", "one", "two", "three", "four", "five", "six", "seven", "eight",
            "nine", "ten", "eleven", "twelve", "thirteen", "fourteen", "fifteen",
            "sixteen", "seventeen", "eighteen", "nineteen"} |->
        CASE s = "zero" -> 0 [] s = "one" -> 1 [] s = "two" -> 2 [] s = "three" -> 3
          [] s = "four" -> 4 [] s = "five" -> 5 [] s = "six" -> 6 [] s = "seven" -> 7
          [] s = "eight" -> 8 [] s = "nine" -> 9 [] s = "ten" -> 10 [] s = "eleven" -> 11
          [] s = "twelve" -> 12 [] s = "thirteen" -> 13 [] s = "fourteen" -> 14
          [] s = "fifteen" -> 15 [] s = "sixteen" -> 16 [] s = "seventeen" -> 17
          [] s = "eighteen" -> 18 [] s = "nineteen" -> 19]

tens ==
    [s \in {"twenty", "thirty", "forty", "fifty", "sixty", "seventy", "eighty", "ninety"} |->
        CASE s = "twenty" -> 20 [] s = "thirty" -> 30 [] s = "forty" -> 40
          [] s = "fifty" -> 50 [] s = "sixty" -> 60 [] s = "seventy" -> 70
          [] s = "eighty" -> 80 [] s = "ninety" -> 90]

scales ==
    [s \in {"hundred", "thousand", "lakh", "crore"} |->
        CASE s = "hundred" -> 100 [] s = "thousand" -> 1000
          [] s = "lakh" -> 100000 [] s = "crore" -> 10000000]

\* word in units or word in tens or word in scales or word == 'and'
IsNumberWord(a) ==
    IsW(a) /\ (a.s \in DOMAIN units \/ a.s \in DOMAIN tens \/ a.s \in DOMAIN scales \/ a.s = "and")

\* ScaleStep without the `if current == 0: current = 1` of line 196
ScaleStepKeepZero(current, scale) == current * scale

\* the scale branch of the loop: an empty running value counts as 1
ScaleStep(current, scale) == (IF current = 0 THEN 1 ELSE current) * scale

RECURSIVE ConvLoop(_, _, _, _)
\* the while loop of convert_number_phrase, from index i with (current, total)
ConvLoop(tokens, i, current, total) ==
    IF i > Len(tokens) THEN [number |-> total + current, consumed |-> i - 1]
    ELSE LET word == tokens[i] IN
         IF IsW(word) /\ word.s \in DOMAIN units
            THEN ConvLoop(tokens, i + 1, current + units[word.s], total)
         ELSE IF IsW(word) /\ word.s \in DOMAIN tens
            THEN ConvLoop(tokens, i + 1, current + tens[word.s], total)
         ELSE IF IsW(word) /\ word.s = "and"
            THEN ConvLoop(tokens, i + 1, current, total)
         ELSE IF IsW(word) /\ word.s \in DOMAIN scales
            THEN ConvLoop(tokens, i + 1, 0, total + ScaleStep(current, scales[word.s]))
         ELSE [number |-> total + current, consumed |-> i - 1]

convert_number_phrase(tokens) == ConvLoop(tokens, 1, 0, 0)

\* re.findall(r"[a-zA-Z]+|\d+|%|\S", text_in): every run but the blanks
Tokens(t) == SelectSeq(t, LAMBDA a : ~IsSp(a))

RECURSIVE ReplaceLoop(_, _, _)
\* the while loop of replace_sequences: the list `out`
ReplaceLoop(tokens, i, out) ==
    IF i > Len(tokens) THEN out
    ELSE IF IsNumberWord(tokens[i])
         THEN LET r == convert_number_phrase(SubSeq(tokens, i, Len(tokens))) IN
              IF r.consumed > 0
                 THEN ReplaceLoop(tokens, i + r.consumed, Append(out, N(StrOf(r.number))))
                 ELSE ReplaceLoop(tokens, i + 1, Append(out, tokens[i]))
         ELSE ReplaceLoop(tokens, i + 1, Append(out, tokens[i]))

RECURSIVE JoinOut(_, _)
\* ' '.join(out).replace(' %', '%'): one blank before every token but the
\* first, none before a '%'
JoinOut(out, i) ==
    IF i > Len(out) THEN <<>>
    ELSE (IF i = 1 \/ IsC(out[i], "%") THEN <<out[i]>> ELSE <<SP, out[i]>>) \o JoinOut(out, i + 1)

replace_sequences(text_in) == JoinOut(ReplaceLoop(Tokens(text_in), 1, <<>>), 1)

_normalize_number_words(t) == replace_sequences(t)

\* ------------------------------------------------------------------ amounts
\* Letter runs are opaque; where a pattern has no \b it matches inside a run,
\* and these sets list the runs of the vocabulary it matches in.
\* a run with 'profit' or 'loss' in it
ContainsProfitLoss == {"profit", "loss", "profits", "losses"}
\* a run that starts with 'profit' or 'loss'
StartsProfitLoss == {"profit", "loss", "profits", "losses"}
\* a run that ends with 'is', 'of' or 'at'
EndsIsOfAt == {"is", "of", "at", "what", "this", "that"}
\* a run that starts with dollar, usd, rs or rupee (IGNORECASE)
StartsUnit == {"dollar", "dollars", "usd", "rs", "rupee", "rupees"}

\* the index after the blanks that start at i
RECURSIVE SkipSp(_, _)
SkipSp(t, i) == IF i <= Len(t) /\ IsSp(t[i]) THEN SkipSp(t, i + 1) ELSE i

\* (?:,\d{3})* after the digit run that ends at e, each group a whole run of
\* three digits: the index of the last run taken
RECURSIVE CommaEnd(_, _)
CommaEnd(t, e) ==
    IF IsC(At(t, e + 1), ",") /\ IsN(At(t, e + 2)) /\ Len(At(t, e + 2).d) = 3
       THEN CommaEnd(t, e + 2) ELSE e

\* the digits of the runs i, i+2, .., e (the commas dropped)
RECURSIVE GroupDigits(_, _, _)
GroupDigits(t, i, e) == IF i > e THEN <<>> ELSE t[i].d \o GroupDigits(t, i + 2, e)

\* (?:\.\d{2})? after the run that ends at e, the fraction a whole run of two digits
HasFrac2(t, e) == IsC(At(t, e + 1), ".") /\ IsN(At(t, e + 2)) /\ Len(At(t, e + 2).d) = 2

NoMatch == [ok |-> FALSE, first |-> 0, last |-> 0, id |-> <<>>, fd |-> <<>>]

\* a match from atom first to atom last whose number has the integer digits id
\* and the fraction digits fd
Match(first, last, id, fd) == [ok |-> TRUE, first |-> first, last |-> last, id |-> id, fd |-> fd]

\* float(amount_str.replace(',', '')), in hundredths
Float100(m) == IntOf(m.id) * 100 + IntOf(m.fd)

\* (?:dollars?|USD|rs|rupees?) after the blanks that follow atom j
UnitAfter(t, j) == IsWordIn(At(t, SkipSp(t, j + 1)), StartsUnit)

\* amount_pattern at the digit run i, whose comma groups end at e; the match
\* starts at first.  First alternative
\*   \$?(\d+(?:,\d{3})*(?:\.\d{2})?)\b
\* takes the longest of: all comma groups and a fraction, all comma groups, and
\* (backtracking) fewer groups, that ends at a \b.  Second alternative
\*   \b(\d+(?:,\d{3})*(?:\.\d{2})?)\s*(?:dollars?|USD|rs|rupees?)
\* is tried when the first fails there.
AmountEndingAt(t, i, e, first) ==
    IF HasFrac2(t, e) /\ ~IsW(At(t, e + 3))
       THEN Match(first, e + 2, GroupDigits(t, i, e), t[e + 2].d)
    ELSE IF ~IsW(At(t, e + 1))
       THEN Match(first, e, GroupDigits(t, i, e), <<>>)
    ELSE IF e > i
       THEN Match(first, e - 2, GroupDigits(t, i, e - 2), <<>>)
    ELSE IF IsW(At(t, i - 1)) THEN NoMatch
    ELSE IF HasFrac2(t, e) /\ UnitAfter(t, e + 2)
       THEN Match(i, SkipSp(t, e + 3), GroupDigits(t, i, e), t[e + 2].d)
    ELSE IF UnitAfter(t, e)
       THEN Match(i, SkipSp(t, e + 1), GroupDigits(t, i, e), <<>>)
    ELSE NoMatch

\* amount_pattern at the digit run i
AmountAt(t, i) ==
    IF ~(i \in 1..Len(t) /\ IsN(t[i])) THEN NoMatch
    ELSE AmountEndingAt(t, i, CommaEnd(t, i), IF IsC(At(t, i - 1), "$") THEN i - 1 ELSE i)

\* re.findall(self.amount_pattern, ...)[0]: the leftmost match
FirstAmount(t) == AmountAt(t, Leftmost({i \in 1..Len(t) : AmountAt(t, i).ok}))

\* (\d+(?:\.\d+)?)\s*% at the digit run i; last is the index of the '%'
PercentAt(t, i) ==
    IF ~(i \in 1..Len(t) /\ IsN(t[i])) THEN NoMatch
    ELSE IF IsC(At(t, i + 1), ".") /\ IsN(At(t, i + 2)) /\ IsC(At(t, SkipSp(t, i + 3)), "%")
         THEN Match(i, SkipSp(t, i + 3), t[i].d, t[i + 2].d)
    ELSE IF IsC(At(t, SkipSp(t, i + 1)), "%")
         THEN Match(i, SkipSp(t, i + 1), t[i].d, <<>>)
    ELSE NoMatch

\* (?:is|of|at)\s*(\d+(?:\.\d+)?)\s*% with the letter run at k
IsOfAtPercentAt(t, k) ==
    /\ k \in 1..Len(t) /\ IsW(t[k]) /\ t[k].s \in EndsIsOfAt
    /\ PercentAt(t, SkipSp(t, k + 1)).ok

\* (\d+(?:\.\d+)?)\s*%\s*(?:profit|loss) at the digit run m
PercentThenTypeAt(t, m) ==
    /\ PercentAt(t, m).ok
    /\ IsWordIn(At(t, SkipSp(t, PercentAt(t, m).last + 1)), StartsProfitLoss)

\* the starts k of a match of (?:is|of|at)\s*N%
IsOfAtPercentStarts(t) == {k \in 1..Len(t) : IsOfAtPercentAt(t, k)}

\* the starts of a match of the first alternative: a 'profit|loss' with an
\* '(is|of|at) N%' somewhere after it
TypeThenPercentStarts(t, A) ==
    {j \in 1..Len(t) : IsWordIn(t[j], ContainsProfitLoss) /\ \E k \in A : k > j}

\* the starts of a match of the second alternative
PercentThenTypeStarts(t) == {m \in 1..Len(t) : PercentThenTypeAt(t, m)}

\* the match that starts at s: from a 'profit|loss' the lazy .*? stops at the
\* first '(is|of|at) N%' after it
PercentageAt(t, A, S1, s) ==
    IF s = 0 THEN NoMatch
    ELSE IF s \in S1 THEN PercentAt(t, SkipSp(t, Min({k \in A : k > s}) + 1))
    ELSE PercentAt(t, s)

\* the leftmost start of either alternative wins
PercentageIn(t, A, S1, S2) == PercentageAt(t, A, S1, Leftmost(S1 \cup S2))

PercentageWith(t, A) ==
    PercentageIn(t, A, TypeThenPercentStarts(t, A), PercentThenTypeStarts(t))

\* re.search(percentage_pattern, normalized)
percentage_match(t) == PercentageWith(t, IsOfAtPercentStarts(t))

\* the group (\d+(?:,\d{3})*(?:\.\d{2})?) of an investment pattern at the digit
\* run i; no \b follows, so a group ends inside a longer digit run
RECURSIVE LooseCommaEnd(_, _)
LooseCommaEnd(t, e) ==
    IF IsC(At(t, e + 1), ",") /\ IsN(At(t, e + 2)) /\ Len(At(t, e + 2).d) >= 3
       THEN (IF Len(At(t, e + 2).d) = 3 THEN LooseCommaEnd(t, e + 2) ELSE e + 2)
       ELSE e

RECURSIVE LooseDigits(_, _, _)
LooseDigits(t, i, e) ==
    IF i > e THEN <<>>
    ELSE (IF i + 2 > e /\ Len(t[i].d) > 3 /\ IsC(At(t, i - 1), ",")
             THEN SubSeq(t[i].d, 1, 3) ELSE t[i].d) \o LooseDigits(t, i + 2, e)

\* (?:\.\d{2})? after the group that ends at e: the group must not have ended
\* inside a digit run
BaseFrac(t, i, e) ==
    /\ e = i \/ Len(t[e].d) = 3
    /\ IsC(At(t, e + 1), ".") /\ IsN(At(t, e + 2)) /\ Len(At(t, e + 2).d) >= 2

BaseEndingAt(t, i, e, frac) ==
    Match(i, IF frac THEN e + 2 ELSE e, LooseDigits(t, i, e),
          IF frac THEN SubSeq(t[e + 2].d, 1, 2) ELSE <<>>)

BaseAt(t, i) ==
    IF ~(i \in 1..Len(t) /\ IsN(t[i])) THEN NoMatch
    ELSE BaseEndingAt(t, i, LooseCommaEnd(t, i), BaseFrac(t, i, LooseCommaEnd(t, i)))

\* investment_patterns[0]: invested\s+(N) with the letter run at k
InvestedAt(t, k) ==
    IF k \in 1..Len(t) /\ IsW(t[k]) /\ t[k].s \in {"invested"} /\ IsSp(At(t, k + 1))
       THEN BaseAt(t, SkipSp(t, k + 1)) ELSE NoMatch

\* investment_patterns[1..3]: <noun>\s+(?:of|is)\s+(N) with the letter run at k
NounOfAt(t, k, noun) ==
    IF /\ k \in 1..Len(t) /\ IsW(t[k]) /\ t[k].s = noun /\ IsSp(At(t, k + 1))
       /\ IsWordIn(At(t, SkipSp(t, k + 1)), {"of", "is"})
       /\ IsSp(At(t, SkipSp(t, k + 1) + 1))
       THEN BaseAt(t, SkipSp(t, SkipSp(t, k + 1) + 1)) ELSE NoMatch

\* one investment pattern at the letter run k
InvestmentAt(t, p, k) == IF p = "invested" THEN InvestedAt(t, k) ELSE NounOfAt(t, k, p)

\* the leftmost match of one investment pattern
InvestmentSearch(t, p) ==
    InvestmentAt(t, p, Leftmost({k \in 1..Len(t) : InvestmentAt(t, p, k).ok}))

investment_patterns == <<"invested", "investment", "base", "capital">>

\* the first of two matches that is one
FirstOk(a, b) == IF a.ok THEN a ELSE b

\* the for loop over investment_patterns: the first pattern that matches
RECURSIVE BaseAmount(_, _)
BaseAmount(t, p) ==
    IF p > Len(investment_patterns) THEN NoMatch
    ELSE FirstOk(InvestmentSearch(t, investment_patterns[p]), BaseAmount(t, p + 1))

\* round(x, 2) of x = n / d hundredths, d > 0: to the nearest hundredth, a tie
\* to the even one
Round2(n, d) ==
    LET q == n \div d
        r == n % d
    IN  IF 2 * r > d \/ (2 * r = d /\ q % 2 = 1) THEN q + 1 ELSE q

\* float(percentage) as the fraction num / den
PercentNum(m) == IntOf(m.id \o m.fd)
PercentDen(m) == 10 ^ Len(m.fd)

\* round(base_amount * (percentage / 100), 2); amounts are in hundredths
PercentOf(base100, num, den) == Round2(base100 * num, 100 * den)

\* lines 139-156: the percentage of the base when both were found, else the
\* first plain amount, else 0.0
AmountOf(pm, base, bare) ==
    IF pm.ok /\ base.ok THEN PercentOf(Float100(base), PercentNum(pm), PercentDen(pm))
    ELSE IF bare.ok THEN Float100(bare)
    ELSE 0

\* lines 101-136 on the normalized text: the percentage, the base of an
\* investment pattern or else the first amount, and the first amount
AmountIn(normalized) ==
    AmountOf(percentage_match(normalized),
             FirstOk(BaseAmount(normalized, 1), FirstAmount(normalized)),
             FirstAmount(normalized))

\* DataExtractor._extract_amount, in hundredths
_extract_amount(text) == AmountIn(_normalize_number_words(lower(text)))

\* ------------------------------------------------------------------ type
profit_patterns ==
    << {"profit", "gained", "earned", "received", "income", "revenue", "made", "won"},
       {"in", "plus", "positive"} >>

loss_patterns ==
    << {"loss", "lost", "spent", "expense", "paid", "cost", "negative", "minus"},
       {"out", "down"} >>

\* _extract_type that goes by the keyword that comes first in the text
_extract_type_of_first_keyword(text) ==
    IF Leftmost({i \in 1..Len(text) : WordAt(text, i, profit_patterns[1] \cup profit_patterns[2])})
         = Leftmost({i \in 1..Len(text) :
                        WordAt(text, i, profit_patterns[1] \cup profit_patterns[2]
                                        \cup loss_patterns[1] \cup loss_patterns[2])})
       /\ HasWord(text, profit_patterns[1] \cup profit_patterns[2])
       THEN "profit"
    ELSE "loss"

\* DataExtractor._extract_type
_extract_type(text) ==
    IF \E p \in 1..Len(profit_patterns) : HasWord(text, profit_patterns[p]) THEN "profit"
    ELSE IF \E p \in 1..Len(loss_patterns) : HasWord(text, loss_patterns[p]) THEN "loss"
    ELSE "loss"

\* ------------------------------------------------------------------ dates
NoDateMatch == [ok |-> FALSE, first |-> 0, last |-> 0, g1 |-> 0, g2 |-> 0, g3 |-> 0]

DateMatch(first, last, g1, g2, g3) ==
    [ok |-> TRUE, first |-> first, last |-> last, g1 |-> g1, g2 |-> g2, g3 |-> g3]

IsSep(a) == IsC(a, "/") \/ IsC(a, "-")

\* a digit run of lo..hi digits
IsNumLen(a, lo, hi) == IsN(a) /\ Len(a.d) \in lo..hi

\* date_patterns[0]: \b(\d{1,2})[/-](\d{1,2})[/-](\d{2,4})\b at the digit run i
NumericDateAt(t, i) ==
    IF /\ i \in 1..Len(t) /\ IsNumLen(t[i], 1, 2) /\ ~IsW(At(t, i - 1))
       /\ IsSep(At(t, i + 1)) /\ IsNumLen(At(t, i + 2), 1, 2)
       /\ IsSep(At(t, i + 3)) /\ IsNumLen(At(t, i + 4), 2, 4) /\ ~IsW(At(t, i + 5))
       THEN DateMatch(i, i + 4, IntOf(t[i].d), IntOf(t[i + 2].d), IntOf(t[i + 4].d))
       ELSE NoDateMatch

\* the index after an optional (?:st|nd|rd|th) that starts at k
SkipOrdinal(t, k) == IF IsW(At(t, k)) /\ At(t, k).s \in {"st", "nd", "rd", "th"} THEN k + 1 ELSE k

\* date_patterns[1]:
\*   \b(month)\s+(\d{1,2})(?:st|nd|rd|th)?,?\s+(\d{2,4})\b at the letter run i:
\* the day is the run j, the blanks before the year start at c, the year is
\* the run l
MonthFirstAt(t, i) ==
    LET Year(j, c, l) ==
            IF /\ IsNumLen(At(t, j), 1, 2) /\ IsSp(At(t, c))
               /\ IsNumLen(At(t, l), 2, 4) /\ ~IsW(At(t, l + 1))
               THEN DateMatch(i, l, month_names[t[i].s], IntOf(t[j].d), IntOf(t[l].d))
               ELSE NoDateMatch
        Comma(j, c) == Year(j, c, SkipSp(t, c))
        Ordinal(j, k) == Comma(j, IF IsC(At(t, k), ",") THEN k + 1 ELSE k)
        Day(j) == Ordinal(j, SkipOrdinal(t, j + 1))
    IN  IF ~(/\ i \in 1..Len(t) /\ IsW(t[i]) /\ t[i].s \in DOMAIN month_names
             /\ ~IsN(At(t, i - 1)) /\ IsSp(At(t, i + 1)))
           THEN NoDateMatch
        ELSE Day(SkipSp(t, i + 1))

\* the last one or two digits of a run
Last2(ds) == IF Len(ds) > 2 THEN SubSeq(ds, Len(ds) - 1, Len(ds)) ELSE ds

\* date_patterns[2]:
\*   \b(\d{1,2})(?:st|nd|rd|th)?\s+(month)\s+(\d{2,4})\b at the digit run i:
\* the blanks after the day start at k, the month is the run j, the year is
\* the run l.
\* QueryAnalyzer.date_pattern has the same alternative without the leading \b
\* (bounded = FALSE): there the day is the last two digits of any digit run.
DayFirstAt(t, i, bounded) ==
    LET Year(k, j, l) ==
            IF /\ IsSp(At(t, k)) /\ IsWordIn(At(t, j), DOMAIN month_names)
               /\ IsSp(At(t, j + 1)) /\ IsNumLen(At(t, l), 2, 4) /\ ~IsW(At(t, l + 1))
               THEN DateMatch(i, l, IntOf(Last2(t[i].d)), month_names[t[j].s], IntOf(t[l].d))
               ELSE NoDateMatch
        Month(k, j) == Year(k, j, SkipSp(t, j + 1))
        Ordinal(k) == Month(k, SkipSp(t, k))
    IN  IF ~(/\ i \in 1..Len(t) /\ IsN(t[i])
             /\ (bounded => (Len(t[i].d) <= 2 /\ ~IsW(At(t, i - 1)))))
           THEN NoDateMatch
        ELSE Ordinal(SkipOrdinal(t, i + 1))

\* date_patterns[p] at atom i
DateAt(t, p, i) ==
    IF p = 0 THEN NumericDateAt(t, i)
    ELSE IF p = 1 THEN MonthFirstAt(t, i) ELSE DayFirstAt(t, i, TRUE)

\* re.search of one of date_patterns[0..2]: the leftmost match
DateSearch(t, p) == DateAt(t, p, Leftmost({i \in 1..Len(t) : DateAt(t, p, i).ok}))

Returned(v) == [raised |-> FALSE, val |-> v]
Raised == [raised |-> TRUE, val |-> NoDate]

\* today.replace(day=d): ValueError when d is no day of today's month
ReplaceDay(today, d) ==
    IF ValidDate(today.y, today.m, d) THEN Returned(strftime(today.y, today.m, d)) ELSE Raised

\* NumericDate with the two readings tried in the other order: day first
NumericDateDayFirst(m) ==
    LET year == TwoDigitYear(m.g3) IN
    IF ValidDate(year, m.g2, m.g1) THEN strftime(year, m.g2, m.g1)
    ELSE IF ValidDate(year, m.g1, m.g2) THEN strftime(year, m.g1, m.g2)
    ELSE NoDate

\* the numeric branch, shared shape of DataExtractor._extract_date (lines 243-258):
\* month/day/year first, then day/month/year, else nothing
NumericDate(m) ==
    LET year == TwoDigitYear(m.g3) IN
    IF ValidDate(year, m.g1, m.g2) THEN strftime(year, m.g1, m.g2)
    ELSE IF ValidDate(year, m.g2, m.g1) THEN strftime(year, m.g2, m.g1)
    ELSE NoDate

\* datetime(year, month, day).strftime("%Y-%m-%d"), or nothing on a ValueError
DateOf(year, month, day) ==
    IF ValidDate(year, month, day) THEN strftime(year, month, day) ELSE NoDate

\* the first of two dates that is one
FirstDate(a, b) == IF a # NoDate THEN a ELSE b

\* the numeric branch (lines 241-258) on the match of date_patterns[0]
NumericOf(match) == IF match.ok THEN NumericDate(match) ELSE NoDate

\* lines 266-284 on a match of date_patterns[1]: groups month, day, year
MonthFirstDate(match) ==
    IF match.ok THEN DateOf(TwoDigitYear(match.g3), match.g1, match.g2) ELSE NoDate

\* lines 266-284 on a match of date_patterns[2]: groups day, month, year
DayFirstDate(match) ==
    IF match.ok THEN DateOf(TwoDigitYear(match.g3), match.g2, match.g1) ELSE NoDate

\* the month-name loop of _extract_date over date_patterns[1:3]
MonthNameDate(t) ==
    FirstDate(MonthFirstDate(DateSearch(t, 1)), DayFirstDate(DateSearch(t, 2)))

\* DataExtractor._extract_date: [raised, val]
_extract_date(text) ==
    LET today == now IN
    IF HasWord(lower(text), {"today"}) THEN Returned(strftime(today.y, today.m, today.d))
    ELSE IF HasWord(lower(text), {"yesterday"}) THEN ReplaceDay(today, today.d - 1)
    ELSE IF HasWord(lower(text), {"tomorrow"}) THEN ReplaceDay(today, today.d + 1)
    ELSE Returned(FirstDate(NumericOf(DateSearch(text, 0)),
                            FirstDate(MonthNameDate(lower(text)),
                                      strftime(now.y, now.m, now.d))))

\* ------------------------------------------------------------------ details
\* One re.sub(pattern, '', details, flags=re.IGNORECASE) of _extract_details:
\* the last atom of the match of pattern `pass` that starts at atom i of the
\* lower-cased text tl, or 0
SpanEnd(pass, tl, i) ==
    CASE pass = "amount" ->
            IF IsC(tl[i], "$")
               THEN (IF AmountAt(tl, i + 1).first = i THEN AmountAt(tl, i + 1).last ELSE 0)
               ELSE AmountAt(tl, i).last
      [] pass = "percent" -> PercentAt(tl, i).last
      [] pass = "date0" -> NumericDateAt(tl, i).last
      [] pass = "date1" -> MonthFirstAt(tl, i).last
      [] pass = "date2" -> DayFirstAt(tl, i, TRUE).last
      [] pass = "relative" ->
            IF WordAt(tl, i, {"today", "yesterday", "tomorrow"}) THEN i ELSE 0
      [] pass = "typeword" ->
            IF /\ WordAt(tl, i, {"profit", "loss", "gained", "earned", "received",
                                 "spent", "paid", "lost"})
               /\ IsSp(At(tl, i + 1)) /\ WordAt(tl, SkipSp(tl, i + 1), {"is", "of", "at"})
               THEN SkipSp(tl, i + 1) ELSE 0
      [] pass = "stopword" -> IF WordAt(tl, i, {"and", "is", "nothing"}) THEN i ELSE 0

RECURSIVE Cut(_, _, _, _)
RECURSIVE CutMatch(_, _, _, _, _)
\* the text left by one re.sub pass over t (tl is t lower-cased), from atom i on
Cut(pass, t, tl, i) ==
    IF i > Len(t) THEN <<>> ELSE CutMatch(pass, t, tl, i, SpanEnd(pass, tl, i))

\* a match from atom i to atom e is dropped, an atom with no match is kept
CutMatch(pass, t, tl, i, e) ==
    IF e >= i THEN Cut(pass, t, tl, e + 1) ELSE <<t[i]>> \o Cut(pass, t, tl, i + 1)

\* the passes of _extract_details, in the order of lines 305-317
DetailPasses ==
    <<"amount", "percent", "date0", "date1", "date2", "relative", "typeword",
      "relative", "stopword">>

RECURSIVE RunPasses(_, _)
RunPasses(t, p) ==
    IF p > Len(DetailPasses) THEN t ELSE RunPasses(Cut(DetailPasses[p], t, lower(t), 1), p + 1)

RECURSIVE Collapse(_, _)
\* ' '.join(details.split()): no blank at either end, one blank between words
Collapse(t, i) ==
    IF i > Len(t) THEN <<>>
    ELSE IF IsSp(t[i])
         THEN (IF i = 1 \/ IsSp(At(t, i + 1)) \/ i = Len(t) THEN <<>> ELSE <<SP>>)
              \o Collapse(t, i + 1)
         ELSE <<t[i]>> \o Collapse(t, i + 1)

\* a blank that the text starts with is dropped by Collapse(t, 1) at i = 1;
\* blanks before it were dropped by the passes' output never starting there
RECURSIVE LStrip(_)
LStrip(t) == IF t # <<>> /\ IsSp(t[1]) THEN LStrip(Tail(t)) ELSE t

RECURSIVE RStrip(_)
RStrip(t) == IF t # <<>> /\ IsSp(t[Len(t)]) THEN RStrip(SubSeq(t, 1, Len(t) - 1)) ELSE t

\* str.strip()
strip(t) == RStrip(LStrip(t))

RECURSIVE CharLen(_)
\* len() of a text, in characters
CharLen(t) ==
    IF t = <<>> THEN 0
    ELSE (IF IsW(t[1]) THEN Len(t[1].s) ELSE IF IsN(t[1]) THEN Len(t[1].d) ELSE 1)
         + CharLen(Tail(t))

\* str.capitalize() of a transaction type
capitalize(type) == IF type = "profit" THEN "Profit" ELSE "Loss"

\* the digits of a matched number as text: '1000', '12.50'
NumberText(m) == <<N(m.id)>> \o (IF m.fd = <<>> THEN <<>> ELSE <<C("."), N(m.fd)>>)

\* lines 299-325: the informative detail of a percentage with an investment,
\* else the cleaned text, else the default
DetailsOf(pm, im, cleaned, transaction_type) ==
    IF pm.ok /\ im.ok
       THEN <<W("Investment"), SP, W("of"), SP>> \o NumberText(im)
            \o <<SP, W("with"), SP>> \o NumberText(pm)
            \o <<C("%"), SP, W(transaction_type)>>
    ELSE IF cleaned = <<>> \/ CharLen(cleaned) < 3
       THEN <<W(capitalize(transaction_type)), SP, W("transaction")>>
    ELSE cleaned

\* DataExtractor._extract_details
_extract_details(text, transaction_type, amount) ==
    DetailsOf(percentage_match(lower(text)), InvestmentSearch(lower(text), "invested"),
              Collapse(LStrip(RunPasses(text, 1)), 1), transaction_type)

\* ------------------------------------------------------------------ extract
NoRecord == [raised |-> TRUE, type |-> "", amount |-> 0, date |-> NoDate, details |-> <<>>]

\* lines 65-72: the record of the extracted fields, or the ValueError of
\* _extract_date
RecordOf(text, transaction_type, amount, date) ==
    IF date.raised THEN NoRecord
    ELSE [raised |-> FALSE, type |-> transaction_type, amount |-> amount,
          date |-> date.val,
          details |-> _extract_details(text, transaction_type, amount)]

\* DataExtractor.extract
extract(text) ==
    RecordOf(text, _extract_type(strip(lower(text))), _extract_amount(text),
             _extract_date(strip(lower(text))))

\* ------------------------------------------------------------------ questions
\* QueryAnalyzer.profit_pattern, loss_pattern, amount_pattern (single words)
profit_pattern == {"profit", "profits", "gained", "earned", "income", "revenue", "made", "earn"}
loss_pattern == {"loss", "losses", "lost", "spent", "expense", "expenses", "spend"}
amount_words == {"what", "total", "amount", "sum", "did", "have"}
report_words == {"report", "summary", "overview", "total"}

\* \b(how much|what|total|amount|sum|did|have)\b
amount_pattern(q) ==
    \/ HasWord(q, amount_words)
    \/ \E i \in 1..Len(q) :
          /\ IsW(q[i]) /\ q[i].s = "how" /\ ~IsN(At(q, i - 1))
          /\ IsSp(At(q, i + 1))
          /\ IsW(At(q, i + 2)) /\ At(q, i + 2).s = "much" /\ ~IsN(At(q, i + 3))

\* an absent key of the params dict; type "none" is the key set to None
NoParams == [date |-> NoDate, type |-> "absent", month |-> 0, year |-> 0]

\* group(1) of a match that starts at the letter run i, or "" without a match
WordOf(q, i) == IF i = 0 THEN "" ELSE q[i].s

\* re.search(self.relative_date_pattern, query).group(1), or "" without a match
relative_date_match(q) ==
    WordOf(q, Leftmost({i \in 1..Len(q) : WordAt(q, i, {"today", "yesterday", "tomorrow"})}))

\* re.search(self.month_pattern, query).group(1), or ""
month_match(q) == WordOf(q, Leftmost({i \in 1..Len(q) : WordAt(q, i, DOMAIN month_names)}))

\* int(year_match.group(1)) of a match at the digit run i, or 0 without a match
YearOf(q, i) == IF i = 0 THEN 0 ELSE IntOf(q[i].d)

\* re.search(r'\b(20\d{2})\b', query): the year, or 0
year_match(q) ==
    YearOf(q, Leftmost({i \in 1..Len(q) :
                           /\ IsNumLen(q[i], 4, 4) /\ q[i].d[1] = 2 /\ q[i].d[2] = 0
                           /\ ~IsW(At(q, i - 1)) /\ ~IsW(At(q, i + 1))}))

\* the match of date_pattern that starts at atom i; kind tells which
\* alternative it is
DateMatchAt(q, i) ==
    IF i = 0 THEN [kind |-> "none", m |-> NoDateMatch]
    ELSE IF NumericDateAt(q, i).ok THEN [kind |-> "numeric", m |-> NumericDateAt(q, i)]
    ELSE [kind |-> "named", m |-> DayFirstAt(q, i, FALSE)]

\* re.search(self.date_pattern, query): the leftmost match of the numeric or
\* of the day-month-year alternative
date_match(q) ==
    DateMatchAt(q, Leftmost({i \in 1..Len(q) :
                                NumericDateAt(q, i).ok \/ DayFirstAt(q, i, FALSE).ok}))

\* QueryAnalyzer._extract_date_from_match: the date, or NoDate for None
_extract_date_from_match(dm) ==
    IF dm.kind = "numeric"
       THEN LET year == TwoDigitYear(dm.m.g3) IN
            IF ValidDate(year, dm.m.g1, dm.m.g2) THEN strftime(year, dm.m.g1, dm.m.g2)
            ELSE IF ValidDate(year, dm.m.g2, dm.m.g1) THEN strftime(year, dm.m.g2, dm.m.g1)
            ELSE NoDate
    ELSE IF dm.kind = "named"
       THEN LET year == TwoDigitYear(dm.m.g3) IN
            IF ValidDate(year, dm.m.g2, dm.m.g1) THEN strftime(year, dm.m.g2, dm.m.g1)
            ELSE NoDate
    ELSE NoDate

\* the type a rule sets from a profit / loss keyword, else the one it found
TypeOf(q, before) ==
    IF HasWord(q, profit_pattern) THEN "profit"
    ELSE IF HasWord(q, loss_pattern) THEN "loss" ELSE before

\* lines 90-99: the day a relative keyword names
RelativeDay(rel) ==
    IF rel = "yesterday" THEN DayBefore(now)
    ELSE IF rel = "tomorrow" THEN DayAfter(now) ELSE now

\* date.strftime("%Y-%m-%d")
DateStr(date) == strftime(date.y, date.m, date.d)

\* lines 87-107 with the keyword found
RelativeRule(q, st, rel) ==
    IF rel = "" THEN st
    ELSE [kind |-> "date_query",
          params |-> [st.params EXCEPT !.date = DateStr(RelativeDay(rel)),
                                       !.type = TypeOf(q, @)]]

\* lines 85-107: the relative-date rule
RuleRelative(q, st) == RelativeRule(q, st, relative_date_match(q))

\* RuleMonth that takes the current year whatever year the question names
RuleMonthThisYear(q, st) ==
    IF month_match(q) = "" \/ relative_date_match(q) # "" THEN st
    ELSE [kind |-> IF TypeOf(q, "absent") = "absent" THEN "monthly_report" ELSE "type_query",
          params |-> [st.params EXCEPT
                         !.month = month_names[month_match(q)],
                         !.year = now.y,
                         !.type = TypeOf(q, @)]]

\* lines 109-129: the month-name rule
RuleMonth(q, st) ==
    IF month_match(q) = "" \/ relative_date_match(q) # "" THEN st
    ELSE [kind |-> IF TypeOf(q, "absent") = "absent" THEN "monthly_report" ELSE "type_query",
          params |-> [st.params EXCEPT
                         !.month = month_names[month_match(q)],
                         !.year = IF year_match(q) # 0 THEN year_match(q) ELSE now.y,
                         !.type = TypeOf(q, @)]]

\* lines 133-142 with the date of the match, NoDate when there is none
DateRule(q, st, date_str) ==
    IF relative_date_match(q) # "" \/ date_str = NoDate THEN st
    ELSE [kind |-> "date_query",
          params |-> [st.params EXCEPT !.date = date_str, !.type = TypeOf(q, @)]]

\* lines 131-142: the explicit-date rule
RuleDate(q, st) == DateRule(q, st, _extract_date_from_match(date_match(q)))

\* RuleAmount that takes the type of its summary from a profit / loss keyword
RuleAmountTyped(q, st) ==
    IF ~amount_pattern(q) \/ st.kind # "unknown" THEN st
    ELSE IF HasWord(q, {"today"})
         THEN [kind |-> "date_query",
               params |-> [st.params EXCEPT !.date = strftime(now.y, now.m, now.d)]]
         ELSE [kind |-> "summary", params |-> [st.params EXCEPT !.type = TypeOf(q, "none")]]

\* lines 144-157: the amount-question rule
RuleAmount(q, st) ==
    IF ~amount_pattern(q) \/ st.kind # "unknown" THEN st
    ELSE IF HasWord(q, {"today"})
         THEN [kind |-> "date_query",
               params |-> [st.params EXCEPT !.date = strftime(now.y, now.m, now.d)]]
         ELSE [kind |-> "summary", params |-> [st.params EXCEPT !.type = "none"]]

\* RuleReport without the test for query_type == 'unknown'
RuleReportAlways(q, st) ==
    IF ~HasWord(q, report_words) THEN st
    ELSE IF TypeOf(q, "absent") # "absent"
         THEN [kind |-> "summary", params |-> [st.params EXCEPT !.type = TypeOf(q, "absent")]]
    ELSE IF month_match(q) = "" /\ date_match(q).kind = "none" /\ relative_date_match(q) = ""
         THEN [kind |-> "summary", params |-> [st.params EXCEPT !.type = "none"]]
    ELSE st

\* lines 159-169: the report-keyword rule
RuleReport(q, st) ==
    IF ~HasWord(q, report_words) \/ st.kind # "unknown" THEN st
    ELSE IF TypeOf(q, "absent") # "absent"
         THEN [kind |-> "summary", params |-> [st.params EXCEPT !.type = TypeOf(q, "absent")]]
    ELSE IF month_match(q) = "" /\ date_match(q).kind = "none" /\ relative_date_match(q) = ""
         THEN [kind |-> "summary", params |-> [st.params EXCEPT !.type = "none"]]
    ELSE st

\* QueryAnalyzer._parse_query: [kind, params]
_parse_query(query) ==
    RuleReport(query, RuleAmount(query, RuleDate(query, RuleMonth(query,
        RuleRelative(query, [kind |-> "unknown", params |-> NoParams])))))

\* ------------------------------------------------------------------ ledger
\* str(amount) of a float amount given in hundredths: '5.0', '12.5', '12.34'
FloatStr(a) ==
    [int |-> StrOf(a \div 100),
     frac |-> IF a % 10 = 0 THEN <<(a % 100) \div 10>> ELSE <<(a % 100) \div 10, a % 10>>]

\* ParseFloat that keeps the whole part only, as int() would
ParseFloatWhole(cell) == IntOf(cell.int) * 100

\* float(row['amount']), in hundredths
ParseFloat(cell) ==
    IntOf(cell.int) * 100
    + (IF Len(cell.frac) = 1 THEN 10 * cell.frac[1] ELSE IntOf(SubSeq(cell.frac, 1, 2)))

\* csv.writer: a field with a comma or a quote in it is written quoted
CsvField(text) ==
    [quoted |-> \E i \in 1..Len(text) : IsC(text[i], ",") \/ IsC(text[i], "\""),
     text |-> text]

\* writer.writerow(record): the row appended to the file
CsvRow(record) ==
    [type |-> record.type, amount |-> FloatStr(record.amount), date |-> record.date,
     details |-> CsvField(record.details)]

\* _ensure_file_exists that takes the first line of a file without the
\* expected header for a header and replaces it
_ensure_file_exists_replacing_first_line(head, file) ==
    IF head \in {"no_file", "empty"} THEN [head |-> "header", file |-> <<>>]
    ELSE IF head # "header" THEN [head |-> "header", file |-> Tail(file)]
    ELSE [head |-> head, file |-> file]

\* CSVManager._ensure_file_exists, called before every read and write
\* (_ensure_header_before_io): a missing or empty file is written with the
\* header alone, a file whose first line is not the header is rewritten as
\* the header followed by all its lines: [head, file]
_ensure_file_exists(head, file) ==
    IF head \in {"no_file", "empty"} THEN [head |-> "header", file |-> <<>>]
    ELSE IF head # "header" THEN [head |-> "header", file |-> file]
    ELSE [head |-> head, file |-> file]

\* CSVManager.read_all_records: the rows as dicts, amount converted to float
read_all_records(file) ==
    [i \in 1..Len(file) |->
        [type |-> file[i].type, amount |-> ParseFloat(file[i].amount),
         date |-> file[i].date, details |-> file[i].details.text]]

\* str(record.get('type', '')).lower()
LowerType(type) == IF type \in {"profit", "Profit", "PROFIT"} THEN "profit"
                   ELSE IF type \in {"loss", "Loss", "LOSS"} THEN "loss" ELSE type

\* RecordKey without the .lower() of lines 78 and 84
RecordKeyCaseSensitive(r) == <<r.type, FloatStr(r.amount), r.date, r.details>>

\* record_key / existing_key of save_record
RecordKey(r) == <<LowerType(r.type), FloatStr(r.amount), r.date, r.details>>

\* the duplicate check of save_record: some stored record has the record's key
IsDuplicate(file, record) ==
    LET existing_records == read_all_records(file)
        record_key == RecordKey(record)
    IN  \E i \in 1..Len(existing_records) : RecordKey(existing_records[i]) = record_key

\* AppendRecord that looks for the record's key again in the file it appends to
AppendRecordIfNew(file, record, writeOk) ==
    IF ~writeOk \/ IsDuplicate(file, record) THEN [ok |-> FALSE, file |-> file]
    ELSE [ok |-> TRUE, file |-> Append(file, CsvRow(record))]

\* AppendRecord that puts the new row first
AppendRecordFirst(file, record, writeOk) ==
    IF ~writeOk THEN [ok |-> FALSE, file |-> file]
    ELSE [ok |-> TRUE, file |-> <<CsvRow(record)>> \o file]

\* lines 93-99 of save_record: the row is appended to the file as it is now;
\* writeOk = FALSE is an open() or write that raises, which the except
\* clause turns into False
AppendRecord(file, record, writeOk) ==
    IF ~writeOk THEN [ok |-> FALSE, file |-> file]
    ELSE [ok |-> TRUE, file |-> Append(file, CsvRow(record))]

\* CSVManager.save_record run without interruption: [ok, file]
save_record(file, record, writeOk) ==
    IF IsDuplicate(file, record) THEN [ok |-> FALSE, file |-> file]
    ELSE AppendRecord(file, record, writeOk)

\* lines 104-115: the reply after save_record
ReplyOf(extracted_data, saved) ==
    [raised |-> FALSE, json |-> extracted_data,
     message |-> IF saved.ok THEN "Record saved successfully"
                 ELSE "Data extracted but failed to save to CSV",
     file |-> saved.file]

\* lines 99-115: an exception of extract leaves the method, else the record
\* is saved and returned
SaveExtracted(file, extracted_data, writeOk) ==
    IF extracted_data.raised
       THEN [raised |-> TRUE, json |-> NoRecord, message |-> "", file |-> file]
       ELSE ReplyOf(extracted_data, save_record(file, extracted_data, writeOk))

\* VoiceToDataAssistant.process_transcription: [raised, json, message, file]
process_transcription(file, transcribed_text, writeOk) ==
    SaveExtracted(file, extract(transcribed_text), writeOk)

\* ------------------------------------------------------------------ narration
\* sum(r['amount'] for r in records)
RECURSIVE Total(_)
Total(records) ==
    IF records = <<>> THEN 0 ELSE Head(records).amount + Total(Tail(records))

\* [r for r in records if r['type'].lower() == type]
OfType(records, type) == SelectSeq(records, LAMBDA r : LowerType(r.type) = type)

\* total_profit, total_loss, net and the two counts of a record list
Figures(records) ==
    [total_profit |-> Total(OfType(records, "profit")),
     total_loss |-> Total(OfType(records, "loss")),
     net |-> Total(OfType(records, "profit")) - Total(OfType(records, "loss")),
     profit_count |-> Len(OfType(records, "profit")),
     loss_count |-> Len(OfType(records, "loss"))]

\* "month" in query.lower()
MentionsMonth(query) ==
    \E i \in 1..Len(query) :
        IsW(query[i]) /\ LowerWord(query[i].s) \in {"month", "months", "monthly"}

\* a text: what kind of text it is and the figures or words it carries
Text(form, of) == [form |-> form, of |-> of]

\* LLMSummarizer._generate_template_summary: the totals, and the monthly
\* breakdown when it is asked for
_generate_template_summary(records, query, summary_type) ==
    IF records = <<>> THEN Text("no_records", <<>>)
    ELSE Text("template",
              [figures |-> Figures(records),
               breakdown |-> summary_type = "monthly" \/ MentionsMonth(query)])

\* LLMSummarizer._generate_with_groq: the answer of the model, or the template
\* when the call raises
_generate_with_groq(records, query, call) ==
    IF call = "fails" THEN _generate_template_summary(records, query, "general")
    ELSE Text("narration", call)

\* LLMSummarizer._generate_with_ollama: the answer, or an exception: the
\* handler hands json.loads the context, which is no JSON text, so it raises
_generate_with_ollama(call) ==
    IF call = "fails" THEN Text("raised", <<>>) ELSE Text("narration", call)

\* LLMSummarizer._generate_with_openai
_generate_with_openai(call) ==
    IF call = "fails" THEN Text("error", "Error generating summary. Please check your API key.")
    ELSE Text("narration", call)

\* LLMSummarizer._generate_with_huggingface
_generate_with_huggingface(call) ==
    IF call = "fails" THEN Text("error", "Error generating summary.")
    ELSE Text("narration", call)

\* lines 125-127: an exception of the backend falls back to the template
OrTemplate(text, records, query, summary_type) ==
    IF text.form = "raised" THEN _generate_template_summary(records, query, summary_type)
    ELSE text

\* LLMSummarizer.generate_summary; backend is self.backend as
\* _initialize_backend left it ("simple" when the set-up failed, and then
\* self.available is False), call is what the backend's call does: it fails,
\* or it answers with some text
generate_summary(records, query, summary_type, backend, call) ==
    IF records = <<>> THEN Text("no_records", "No records found in the CSV data.")
    ELSE IF backend = "groq" THEN _generate_with_groq(records, query, call)
    ELSE IF backend = "ollama"
         THEN OrTemplate(_generate_with_ollama(call), records, query, summary_type)
    ELSE IF backend = "openai" THEN _generate_with_openai(call)
    ELSE IF backend = "huggingface" THEN _generate_with_huggingface(call)
    ELSE _generate_template_summary(records, query, summary_type)

\* ------------------------------------------------------------------ reports
\* get_records_by_month that compares the month only
get_records_by_month_of_any_year(file, year, month) ==
    SelectSeq(read_all_records(file), LAMBDA r : r.date.yw = 4 /\ r.date.m = month)

\* CSVManager.get_records_by_month: strptime('%Y-%m-%d') takes a year of four
\* digits only, a record with another date is skipped
get_records_by_month(file, year, month) ==
    SelectSeq(read_all_records(file),
              LAMBDA r : r.date.yw = 4 /\ r.date.y = year /\ r.date.m = month)

\* CSVManager.get_records_by_date: the date strings are equal
get_records_by_date(file, date) ==
    SelectSeq(read_all_records(file), LAMBDA r : r.date = date)

\* CSVManager.get_records_by_type
get_records_by_type(file, transaction_type) ==
    OfType(read_all_records(file), LowerType(transaction_type))

\* the 'json' of a reply: None, or a report
Null == [null |-> TRUE]
Json(report) == [null |-> FALSE, report |-> report]

\* a figure of a report that is None in one of its two forms
Opt(set, v) == [set |-> set, v |-> IF set THEN v ELSE 0]

\* a type parameter that is absent or None
IsSet(transaction_type) == transaction_type \notin {"absent", "none"}

\* f"{month_name} {year}" if month_name and year else "All time"
Period(month, year) ==
    IF month # 0 /\ year # 0 THEN [month |-> month, year |-> year]
    ELSE [month |-> 0, year |-> 0]

\* the question _generate_monthly_report hands to generate_summary (the month
\* name is capitalized there; generate_summary lower-cases the question)
NarrationQuery(period) ==
    <<W("Generate"), SP, W("a"), SP, W("monthly"), SP, W("report")>>
    \o (IF period.month = 0 THEN <<>>
        ELSE <<SP, W("for"), SP,
               W(CHOOSE k \in DOMAIN month_names : month_names[k] = period.month),
               SP, N(StrOf(period.year))>>)

\* MonthlyReport that puts the narration into the structured report
MonthlyReportNarrated(records, period, narrate) ==
    IF records = <<>> THEN [text |-> Text("no_records", "period"), json |-> Null]
    ELSE [text |-> generate_summary(records, NarrationQuery(period), "monthly",
                                    narrate.backend, narrate.call),
          json |-> Json([period |-> period, summary |-> Figures(records),
                         profits |-> OfType(records, "profit"),
                         losses |-> OfType(records, "loss"),
                         text |-> generate_summary(records, NarrationQuery(period), "monthly",
                                                   narrate.backend, narrate.call)])]

\* lines 224-281 of _generate_monthly_report with the records fetched; narrate
\* is [use_llm, backend, call]
MonthlyReport(records, period, narrate) ==
    IF records = <<>> THEN [text |-> Text("no_records", "period"), json |-> Null]
    ELSE [text |-> IF narrate.use_llm
                      THEN generate_summary(records, NarrationQuery(period), "monthly",
                                            narrate.backend, narrate.call)
                      ELSE Text("monthly", Figures(records)),
          json |-> Json([period |-> period, summary |-> Figures(records),
                         profits |-> OfType(records, "profit"),
                         losses |-> OfType(records, "loss")])]

\* QueryAnalyzer._generate_monthly_report
_generate_monthly_report(file, month, year, narrate) ==
    MonthlyReport(IF month # 0 /\ year # 0 THEN get_records_by_month(file, year, month)
                  ELSE read_all_records(file),
                  Period(month, year), narrate)

\* DateReport that reports the total and the net whether or not a type is given
DateReportBothTotals(records, date, transaction_type) ==
    IF records = <<>>
       THEN [text |-> Text("no_records", [type |-> transaction_type, date |-> date]),
             json |-> Null]
    ELSE [text |-> Text("date", [type |-> transaction_type, date |-> date,
                                 figures |-> Figures(records)]),
          json |-> Json([date |-> date,
                         type_filter |-> transaction_type,
                         summary |-> [total |-> Opt(TRUE, Total(records)),
                                      total_profit |-> Figures(records).total_profit,
                                      total_loss |-> Figures(records).total_loss,
                                      net |-> Opt(TRUE, Figures(records).net),
                                      count |-> Len(records)],
                         records |-> records])]

\* lines 290-341 of _generate_date_report with the records fetched and filtered
DateReport(records, date, transaction_type) ==
    IF records = <<>>
       THEN [text |-> Text("no_records", [type |-> transaction_type, date |-> date]),
             json |-> Null]
    ELSE [text |-> Text("date", [type |-> transaction_type, date |-> date,
                                 figures |-> Figures(records)]),
          json |-> Json([date |-> date,
                         type_filter |-> transaction_type,
                         summary |-> [total |-> Opt(transaction_type # "none", Total(records)),
                                      total_profit |-> Figures(records).total_profit,
                                      total_loss |-> Figures(records).total_loss,
                                      net |-> Opt(transaction_type = "none",
                                                  Figures(records).net),
                                      count |-> Len(records)],
                         records |-> records])]

\* QueryAnalyzer._generate_date_report
_generate_date_report(file, date, transaction_type) ==
    IF IsSet(transaction_type)
       THEN DateReport(OfType(get_records_by_date(file, date), LowerType(transaction_type)),
                       date, transaction_type)
       ELSE DateReport(get_records_by_date(file, date), date, "none")

\* lines 356-388 of _generate_type_report with the records fetched
TypeReport(records, transaction_type, period) ==
    IF records = <<>>
       THEN [text |-> Text("no_records", [type |-> transaction_type]), json |-> Null]
    ELSE [text |-> Text("type", [type |-> transaction_type, period |-> period,
                                 total |-> Total(records), count |-> Len(records)]),
          json |-> Json([type |-> transaction_type, period |-> period,
                         summary |-> [total |-> Total(records), count |-> Len(records)],
                         records |-> records])]

\* QueryAnalyzer._generate_type_report
_generate_type_report(file, transaction_type, month, year) ==
    TypeReport(IF month # 0 /\ year # 0
                  THEN OfType(get_records_by_month(file, year, month),
                              LowerType(transaction_type))
                  ELSE get_records_by_type(file, transaction_type),
               transaction_type, Period(month, year))

\* _generate_summary that reports zero totals for an empty ledger
SummaryReportOfAny(records, transaction_type) ==
    [text |-> Text("summary", [type |-> transaction_type, figures |-> Figures(records)]),
     json |-> Json([type_filter |-> transaction_type, summary |-> Figures(records),
                    total_records |-> Len(records)])]

\* lines 397-440 of _generate_summary with the records fetched
SummaryReport(records, transaction_type) ==
    IF records = <<>> THEN [text |-> Text("no_records", "No records found."), json |-> Null]
    ELSE [text |-> Text("summary", [type |-> transaction_type, figures |-> Figures(records)]),
          json |-> Json([type_filter |-> transaction_type, summary |-> Figures(records),
                         total_records |-> Len(records)])]

\* QueryAnalyzer._generate_summary
_generate_summary(file, transaction_type) ==
    IF IsSet(transaction_type)
       THEN SummaryReport(get_records_by_type(file, transaction_type), transaction_type)
       ELSE SummaryReport(read_all_records(file), "none")

\* lines 62-78 of analyze with the question classified
Dispatch(file, intent, narrate) ==
    IF intent.kind = "monthly_report"
       THEN _generate_monthly_report(file, intent.params.month, intent.params.year, narrate)
    ELSE IF intent.kind = "date_query"
       THEN _generate_date_report(file, intent.params.date, intent.params.type)
    ELSE IF intent.kind = "type_query"
       THEN _generate_type_report(file, intent.params.type, intent.params.month,
                                  intent.params.year)
    ELSE IF intent.kind = "summary" THEN _generate_summary(file, intent.params.type)
    ELSE [text |-> Text("help", "I couldn't understand your query."), json |-> Null]

\* QueryAnalyzer.analyze: [text, json]
analyze(file, query, narrate) == Dispatch(file, _parse_query(lower(query)), narrate)

\* the file after analyze: every kind but unknown fetches its records through
\* read_all_records, which checks the header first: [head, file]
FileRead(head, file, intent) ==
    IF intent.kind = "unknown" THEN [head |-> head, file |-> file]
    ELSE _ensure_file_exists(head, file)

\* ------------------------------------------------------------------ voice
\* heard is what happens to a recording: [outcome, text].
\* VoiceToText.transcribe_file: the text, or an exception when the file is
\* missing (line 84) or when the API and the local model both fail
transcribe_file(heard) ==
    IF heard.outcome = "ok" THEN [raised |-> FALSE, text |-> heard.text]
    ELSE [raised |-> TRUE, text |-> <<>>]

\* lines 124-134: the request is sent again after a 503 answer to any request
SendAgainWhileLoading(status, requests) == status = "503"

\* lines 124-134: the request is sent again after a 503 answer to the first
SendAgain(status, requests) == status = "503" /\ requests = 1

\* lines 136-164: what the last answer gives: the text of a 200 answer
\* (str(result) when the JSON has another shape), or an exception for status
\* 410, for any other status and for a body that is no JSON
Answer(status) ==
    IF status = "200 text" THEN [raised |-> FALSE, text |-> "text of the API"]
    ELSE IF status = "200 other" THEN [raised |-> FALSE, text |-> "str(result)"]
    ELSE [raised |-> TRUE, text |-> ""]

\* VoiceToText._transcribe_local: whisper is what the local model does
_transcribe_local(whisper) ==
    IF whisper = "ok" THEN [raised |-> FALSE, text |-> "text of whisper"]
    ELSE [raised |-> TRUE, text |-> ""]

\* lines 166-211: the fallback after an exception of the API path: import
\* whisper, load the model when none is loaded, transcribe; whatever fails
\* is raised as a new Exception.  [raised, text, use_local]
LocalFallback(whisper) ==
    IF whisper \in {"no module", "load fails"}
       THEN [raised |-> TRUE, text |-> "", use_local |-> FALSE]
       ELSE [raised |-> _transcribe_local(whisper).raised,
             text |-> _transcribe_local(whisper).text, use_local |-> TRUE]

\* VoiceToText.transcribe_microphone: "" when sounddevice or soundfile cannot
\* be imported (lines 244-250), an exception when the recording or the
\* transcription fails (lines 279-280), else the text
transcribe_microphone(heard) ==
    IF heard.outcome = "no_audio_library" THEN [raised |-> FALSE, text |-> <<>>]
    ELSE IF heard.outcome = "recording_fails" THEN [raised |-> TRUE, text |-> <<>>]
    ELSE transcribe_file(heard)

\* lines 267-280 of transcribe_microphone: the temporary files on disk after
\* the call.  The recording is written to temp_recording.wav (line 269) and
\* removed after transcribe_file has returned (lines 275-276); an exception
\* of transcribe_file goes to the except clause of line 279
temp_recording(heard, files) ==
    IF heard.outcome \in {"no_audio_library", "recording_fails"} THEN files
    ELSE IF transcribe_file(heard).raised THEN files \cup {"temp_recording.wav"}
    ELSE (files \cup {"temp_recording.wav"}) \ {"temp_recording.wav"}

\* lines 63-66 and 83-86: an exception of the transcription leaves the method,
\* else the text goes to process_transcription
ProcessTranscribed(file, transcribed, writeOk) ==
    IF transcribed.raised
       THEN [raised |-> TRUE, json |-> NoRecord, message |-> "", file |-> file]
       ELSE process_transcription(file, transcribed.text, writeOk)

\* VoiceToDataAssistant.process_voice_file
process_voice_file(file, heard, writeOk) ==
    ProcessTranscribed(file, transcribe_file(heard), writeOk)

\* VoiceToDataAssistant.process_voice_microphone
process_voice_microphone(file, heard, writeOk) ==
    ProcessTranscribed(file, transcribe_microphone(heard), writeOk)

\* the finally clause of the /transcribe handler (app.py, lines 123-129)
RemoveTemp(temp_path, files) == files \ {temp_path}

\* app.transcribe_audio: upload is what the request carries ("no filename",
\* "empty" or "audio"), result what process_voice_file makes of the temporary
\* file transcribe_<n><ext> of mkstemp.  [status, json, message, file, temp]
transcribe_audio(file, upload, result, files) ==
    IF upload = "no filename"
       THEN [status |-> 400, json |-> NoRecord, message |-> "", file |-> file,
             temp |-> files]
    ELSE IF upload = "empty"
       THEN [status |-> 400, json |-> NoRecord, message |-> "", file |-> file,
             temp |-> RemoveTemp("transcribe_", files \cup {"transcribe_"})]
    ELSE IF result.raised
       THEN [status |-> 500, json |-> NoRecord, message |-> "", file |-> result.file,
             temp |-> RemoveTemp("transcribe_", files \cup {"transcribe_"})]
    ELSE [status |-> 200, json |-> result.json, message |-> result.message,
          file |-> result.file,
          temp |-> RemoveTemp("transcribe_", files \cup {"transcribe_"})]

\* ------------------------------------------------------------------ inputs
\* letter runs with one blank between them
RECURSIVE Phrase(_)
Phrase(ws) ==
    IF ws = <<>> THEN <<>>
    ELSE IF Len(ws) = 1 THEN <<W(ws[1])>>
    ELSE <<W(ws[1]), SP>> \o Phrase(Tail(ws))

\* items with one blank between them
RECURSIVE JoinItems(_)
JoinItems(items) ==
    IF items = <<>> THEN <<>>
    ELSE IF Len(items) = 1 THEN items[1]
    ELSE items[1] \o <<SP>> \o JoinItems(Tail(items))

\* every text of 1..n items of S
TextsOf(S, n) == {JoinItems(f) : f \in UNION {[1..k -> S] : k \in 1..n}}

\* the first day of a month, the last day of a month, a day in between
Nows == {[y |-> 2024, m |-> 3, d |-> 1], [y |-> 2024, m |-> 2, d |-> 29],
         [y |-> 2024, m |-> 8, d |-> 15]}

\* ---- spoken-number phrases
ConvWords == {"one", "two", "five", "twenty", "hundred", "lakh", "and", "dollars"}

PhraseInputs == UNION {[1..k -> {W(w) : w \in ConvWords}] : k \in 1..MaxPhraseLen}

InitConv ==
    /\ now \in {[y |-> 2024, m |-> 8, d |-> 15]} /\ padYear = TRUE /\ ledger = <<>> /\ calls = <<>> /\ header = "header" /\ temp = {}
    /\ op = "none" /\ arg \in PhraseInputs
    /\ ret = [number |-> 0, consumed |-> 0]

ConvertNumberPhrase ==
    /\ op = "none"
    /\ op' = "convert_number_phrase"
    /\ ret' = convert_number_phrase(arg)
    /\ UNCHANGED <<temp, header, calls, now, padYear, ledger, arg>>

NextConv == ConvertNumberPhrase

SpecConv == InitConv /\ [][NextConv]_vars

\* ---- amounts
AmountItems ==
    { Phrase(<<"paid">>), <<C("$"), N(<<2, 0>>)>>,
      <<C("$"), N(<<1>>), C(","), N(<<0, 0, 0>>)>>,
      <<C("$"), N(<<1, 2>>), C("."), N(<<5, 0>>)>>,
      <<N(<<3>>), SP, W("apples")>>, Phrase(<<"and">>), Phrase(<<"two", "hundred">>),
      Phrase(<<"profit", "is">>) \o <<SP, N(<<1, 0>>), C("%")>>,
      <<N(<<5>>), C("%"), SP, W("loss")>>,
      Phrase(<<"of", "invested">>) \o <<SP, N(<<1, 0, 0, 0>>)>>,
      Phrase(<<"of", "invested">>) \o <<SP, N(<<1>>), C(","), N(<<0, 0, 0>>)>>,
      Phrase(<<"base", "is">>) \o <<SP, N(<<5, 0, 0>>)>>,
      <<N(<<4, 0>>), SP, W("dollars")>> }

AmountTexts == TextsOf(AmountItems, MaxAmountItems)

InitAmount ==
    /\ now \in {[y |-> 2024, m |-> 8, d |-> 15]} /\ padYear = TRUE /\ ledger = <<>> /\ calls = <<>> /\ header = "header" /\ temp = {}
    /\ op = "none" /\ arg \in AmountTexts
    /\ ret = [amount |-> 0]

ExtractAmount ==
    /\ op = "none"
    /\ op' = "_extract_amount"
    /\ ret' = [amount |-> _extract_amount(arg)]
    /\ UNCHANGED <<temp, header, calls, now, padYear, ledger, arg>>

NextAmount == ExtractAmount

SpecAmount == InitAmount /\ [][NextAmount]_vars

\* ---- types
TypeItems ==
    { Phrase(<<"profit">>), Phrase(<<"won">>), Phrase(<<"in">>), Phrase(<<"positive">>),
      Phrase(<<"paid">>), Phrase(<<"lost">>), Phrase(<<"out">>), Phrase(<<"down">>),
      Phrase(<<"cash">>), Phrase(<<"profits">>), <<C("$"), N(<<5>>)>> }

TypeTexts == TextsOf(TypeItems, MaxTypeItems)

InitType ==
    /\ now \in {[y |-> 2024, m |-> 8, d |-> 15]} /\ padYear = TRUE /\ ledger = <<>> /\ calls = <<>> /\ header = "header" /\ temp = {}
    /\ op = "none" /\ arg \in TypeTexts
    /\ ret = "none"

\* extract hands _extract_type the lower-cased text (lines 53-56)
ExtractType ==
    /\ op = "none"
    /\ op' = "_extract_type"
    /\ ret' = _extract_type(lower(arg))
    /\ UNCHANGED <<temp, header, calls, now, padYear, ledger, arg>>

NextType == ExtractType

SpecType == InitType /\ [][NextType]_vars

\* ---- dates
DateItems ==
    { Phrase(<<"today">>), Phrase(<<"yesterday">>), Phrase(<<"tomorrow">>),
      <<N(<<1, 3>>), C("/"), N(<<0, 2>>), C("/"), N(<<2, 0, 2, 4>>)>>,
      <<N(<<1>>), C("/"), N(<<2>>), C("/"), N(<<1, 2, 3>>)>>,
      <<N(<<2>>), C("-"), N(<<3, 0>>), C("-"), N(<<2, 4>>)>>,
      <<W("august"), SP, N(<<1, 2>>), C(","), SP, N(<<2, 0, 2, 4>>)>>,
      <<N(<<1, 2>>), W("th"), SP, W("august"), SP, N(<<9, 9>>)>>,
      <<W("paid"), SP, C("$"), N(<<5>>)>>,
      Phrase(<<"what", "profit">>) }

DateTexts == TextsOf(DateItems, MaxDateItems)

\* the digit runs of the numeric tokens A/B/Y
DayMonthDigits == {<<1>>, <<0, 2>>, <<1, 3>>, <<2, 9>>, <<3, 1>>, <<0>>}
YearDigits == {<<2, 4>>, <<2, 3>>, <<4, 9>>, <<5, 0>>, <<2, 0, 2, 4>>, <<1, 2, 3>>}

NumToken(a, b, y) == <<N(a), C("/"), N(b), C("/"), N(y)>>

NumericTexts ==
    {NumToken(a, b, y) : a \in DayMonthDigits, b \in DayMonthDigits, y \in YearDigits}
    \cup {<<W("on"), SP>> \o NumToken(a, b, y) :
             a \in DayMonthDigits, b \in DayMonthDigits, y \in YearDigits}

UnsetDate == [set |-> FALSE, raised |-> FALSE, val |-> NoDate]
UnsetIntent == [set |-> FALSE, kind |-> "unknown", params |-> NoParams]
UnsetRecord == [set |-> FALSE, rec |-> NoRecord]

InitDate ==
    /\ now \in Nows /\ padYear \in BOOLEAN /\ ledger = <<>> /\ calls = <<>> /\ header = "header" /\ temp = {}
    /\ op = "none" /\ arg \in DateTexts \cup NumericTexts
    /\ ret = [date |-> UnsetDate, intent |-> UnsetIntent, record |-> UnsetRecord]

ExtractDate ==
    /\ ~ret.date.set
    /\ op' = "_extract_date"
    /\ \E r \in {_extract_date(lower(arg))} :
         ret' = [ret EXCEPT !.date = [set |-> TRUE, raised |-> r.raised, val |-> r.val]]
    /\ UNCHANGED <<temp, header, calls, now, padYear, ledger, arg>>

\* analyze lower-cases the question before _parse_query (line 57)
ParseQuery ==
    /\ ~ret.intent.set
    /\ op' = "_parse_query"
    /\ \E r \in {_parse_query(lower(arg))} :
         ret' = [ret EXCEPT !.intent = [set |-> TRUE, kind |-> r.kind, params |-> r.params]]
    /\ UNCHANGED <<temp, header, calls, now, padYear, ledger, arg>>

Extract ==
    /\ ~ret.record.set
    /\ op' = "extract"
    /\ ret' = [ret EXCEPT !.record = [set |-> TRUE, rec |-> extract(arg)]]
    /\ UNCHANGED <<temp, header, calls, now, padYear, ledger, arg>>

NextDate == ExtractDate \/ ParseQuery \/ Extract

SpecDate == InitDate /\ [][NextDate]_vars

\* ---- questions
Q12August ==
    Phrase(<<"How", "much", "loss", "did", "I", "have", "on">>)
    \o <<SP, N(<<1, 2>>), SP, W("August"), C("?")>>

QMonthlyReport ==
    Phrase(<<"Generate", "a", "monthly", "profit">>) \o <<C("/")>> \o Phrase(<<"loss", "report">>)

QueryItems ==
    { Q12August, QMonthlyReport,
      Phrase(<<"how", "much">>), Phrase(<<"what">>), Phrase(<<"show">>), Phrase(<<"report">>),
      Phrase(<<"profit">>), Phrase(<<"loss">>), Phrase(<<"march">>),
      Phrase(<<"today">>), Phrase(<<"yesterday">>),
      <<N(<<5>>), W("th"), SP, W("may")>>, <<W("in"), SP, N(<<2, 0, 2, 3>>)>>,
      <<N(<<1, 2>>), SP, W("august"), SP, N(<<2, 0, 2, 5>>)>>,
      <<N(<<1, 3>>), C("/"), N(<<0, 2>>), C("/"), N(<<2, 0, 2, 4>>)>> }

QueryTexts == TextsOf(QueryItems, MaxQueryItems)

InitQuery ==
    /\ now \in Nows /\ padYear = TRUE /\ ledger = <<>> /\ calls = <<>> /\ header = "header" /\ temp = {}
    /\ op = "none" /\ arg \in QueryTexts
    /\ ret = [date |-> UnsetDate, intent |-> UnsetIntent, record |-> UnsetRecord]

NextQuery == ParseQuery

SpecQuery == InitQuery /\ [][NextQuery]_vars

\* ---- the ledger behind process_transcription
LedgerTexts ==
    { <<W("paid"), SP, C("$"), N(<<5>>), SP, W("today")>>,
      <<W("rent"), C(","), SP, W("won"), SP, N(<<2, 0>>)>>,
      <<N(<<1>>), C("/"), N(<<2>>), C("/"), N(<<1, 2, 3>>), SP, W("won"), SP, N(<<5>>)>>,
      <<W("lost"), SP, N(<<5>>), SP, W("yesterday")>>,
      Phrase(<<"profit", "is">>) \o <<SP, N(<<5>>), C("%"), SP>>
          \o Phrase(<<"of", "invested">>) \o <<SP, N(<<2, 5, 0>>)>> }

Init ==
    /\ now \in Nows /\ padYear \in BOOLEAN /\ ledger = <<>> /\ calls = <<>> /\ header = "header" /\ temp = {}
    /\ op = "none" /\ arg = <<>> /\ ret = <<>>

ProcessTranscription ==
    \E t \in LedgerTexts, writeOk \in BOOLEAN :
      \E r \in {process_transcription(ledger, t, writeOk)} :
        /\ Len(ledger) < MaxLedger
        /\ op' = "process_transcription"
        /\ arg' = [text |-> t, writeOk |-> writeOk]
        /\ ret' = [raised |-> r.raised, json |-> r.json, message |-> r.message]
        /\ ledger' = r.file
        /\ UNCHANGED <<temp, header, calls, now, padYear>>

ReadAllRecords ==
    \E f \in {_ensure_file_exists(header, ledger)} :
        /\ op' = "read_all_records"
        /\ arg' = <<>>
        /\ header' = f.head /\ ledger' = f.file
        /\ ret' = read_all_records(f.file)
        /\ UNCHANGED <<temp, calls, now, padYear>>

Next == ProcessTranscription \/ ReadAllRecords

Spec == Init /\ [][Next]_vars

\* ---- voice input in front of the ledger
SpokenTexts ==
    { <<W("paid"), SP, C("$"), N(<<5>>), SP, W("today")>>,
      <<W("rent"), C(","), SP, W("won"), SP, N(<<2, 0>>)>>,
      <<W("lost"), SP, N(<<5>>)>> }

Heard(outcomes) ==
    {[outcome |-> "ok", text |-> t] : t \in SpokenTexts}
    \cup {[outcome |-> o, text |-> <<>>] : o \in outcomes}

InitVoice ==
    /\ now \in {[y |-> 2024, m |-> 8, d |-> 15]} /\ padYear = TRUE /\ ledger = <<>>
    /\ calls = <<>> /\ header = "header" /\ temp = {}
    /\ op = "none" /\ arg = <<>> /\ ret = <<>>

ProcessVoiceFile ==
    \E heard \in Heard({"no_file", "transcription_fails"}), writeOk \in BOOLEAN :
      \E r \in {process_voice_file(ledger, heard, writeOk)} :
        /\ Len(ledger) < MaxLedger
        /\ op' = "process_voice_file"
        /\ arg' = [heard |-> heard, writeOk |-> writeOk]
        /\ ret' = [raised |-> r.raised, json |-> r.json, message |-> r.message]
        /\ ledger' = r.file
        /\ UNCHANGED <<temp, header, calls, now, padYear>>

ProcessVoiceMicrophone ==
    \E heard \in Heard({"no_audio_library", "recording_fails", "transcription_fails"}),
       writeOk \in BOOLEAN :
      \E r \in {process_voice_microphone(ledger, heard, writeOk)} :
        /\ Len(ledger) < MaxLedger
        /\ op' = "process_voice_microphone"
        /\ arg' = [heard |-> heard, writeOk |-> writeOk]
        /\ ret' = [raised |-> r.raised, json |-> r.json, message |-> r.message]
        /\ ledger' = r.file
        /\ temp' = temp_recording(heard, temp)
        /\ UNCHANGED <<header, calls, now, padYear>>

\* POST /transcribe: the upload is written to a temporary file and handed to
\* process_voice_file
TranscribeAudio ==
    \E upload \in {"no filename", "empty", "audio"},
       heard \in Heard({"transcription_fails"}), writeOk \in BOOLEAN :
      \E p \in {process_voice_file(ledger, heard, writeOk)} :
      \E r \in {transcribe_audio(ledger, upload, p, temp)} :
        /\ Len(ledger) < MaxLedger
        /\ op' = "transcribe_audio"
        /\ arg' = [upload |-> upload, heard |-> heard, writeOk |-> writeOk]
        /\ ret' = [status |-> r.status, json |-> r.json, message |-> r.message]
        /\ ledger' = r.file
        /\ temp' = r.temp
        /\ UNCHANGED <<header, calls, now, padYear>>

NextVoice == ProcessVoiceFile \/ ProcessVoiceMicrophone \/ TranscribeAudio \/ ReadAllRecords

SpecVoice == InitVoice /\ [][NextVoice]_vars

\* ---- one call of transcribe_file, step by step
\* what the API answers to a request: a status, or the request raises
Responses == {"200 text", "200 other", "200 no json", "503", "410", "500", "raises"}

\* the audio file, the mode of the converter, the answers to the first and
\* second request, and what the local model does.  A converter in local mode
\* has its model loaded (lines 30-41)
Recordings ==
    {r \in [exists : BOOLEAN, use_local : BOOLEAN, first : Responses, second : Responses,
            whisper : {"ok", "transcribe fails", "load fails", "no module"}] :
        r.use_local => r.whisper \in {"ok", "transcribe fails"}}

InitTranscribe ==
    /\ now \in {[y |-> 2024, m |-> 8, d |-> 15]} /\ padYear = TRUE /\ ledger = <<>>
    /\ header = "header" /\ temp = {}
    /\ op = "none" /\ arg \in Recordings /\ ret = <<>>
    /\ calls = [pc |-> "idle", use_local |-> arg.use_local, requests |-> 0, status |-> "",
                fallbacks |-> 0]

\* lines 83-88: a missing file raises, local mode goes to the local model
TranscribeStart ==
    /\ calls.pc = "idle"
    /\ op' = "transcribe_file"
    /\ IF ~arg.exists
          THEN calls' = [calls EXCEPT !.pc = "raised"] /\ ret' = [raised |-> TRUE, text |-> ""]
       ELSE IF calls.use_local
          THEN calls' = [calls EXCEPT !.pc = "local"] /\ ret' = ret
          ELSE calls' = [calls EXCEPT !.pc = "post"] /\ ret' = ret
    /\ UNCHANGED <<temp, header, now, padYear, ledger, arg>>

\* line 88: the local model of a converter in local mode; its exception
\* leaves transcribe_file
TranscribeLocal ==
    /\ calls.pc = "local"
    /\ ret' = _transcribe_local(arg.whisper)
    /\ calls' = [calls EXCEPT !.pc = IF ret'.raised THEN "raised" ELSE "returned"]
    /\ UNCHANGED <<temp, header, now, padYear, ledger, op, arg>>

\* lines 117-134: requests.post; an exception of the request goes to the
\* except clause, a 503 answer to the first request sends it once more
PostRequest ==
    \E status \in {IF calls.requests = 0 THEN arg.first ELSE arg.second} :
        /\ calls.pc = "post"
        /\ calls' = [calls EXCEPT !.requests = @ + 1, !.status = status,
                                  !.pc = IF status = "raises" THEN "except"
                                         ELSE IF SendAgain(status, calls.requests + 1)
                                            THEN "post" ELSE "answer"]
        /\ UNCHANGED <<temp, header, now, padYear, ledger, op, arg, ret>>

\* lines 136-164: the answer is read and returned, or an exception is raised
\* into the except clause
ReadAnswer ==
    /\ calls.pc = "answer"
    /\ IF Answer(calls.status).raised
          THEN calls' = [calls EXCEPT !.pc = "except"] /\ ret' = ret
          ELSE /\ calls' = [calls EXCEPT !.pc = "returned"]
               /\ ret' = Answer(calls.status)
    /\ UNCHANGED <<temp, header, now, padYear, ledger, op, arg>>

\* lines 166-213: the except clause of the API path
Fallback ==
    \E r \in {LocalFallback(arg.whisper)} :
        /\ calls.pc = "except"
        /\ calls' = [calls EXCEPT !.fallbacks = @ + 1, !.use_local = r.use_local,
                                  !.pc = IF r.raised THEN "raised" ELSE "returned"]
        /\ ret' = [raised |-> r.raised, text |-> r.text]
        /\ UNCHANGED <<temp, header, now, padYear, ledger, op, arg>>

NextTranscribe == TranscribeStart \/ TranscribeLocal \/ PostRequest \/ ReadAnswer \/ Fallback

SpecTranscribe == InitTranscribe /\ [][NextTranscribe]_vars

\* ---- the narration backends
Backends == {"groq", "ollama", "openai", "huggingface", "simple"}

\* what the call to the backend does: it raises, or it answers
Calls == {"fails", "an answer", "another answer"}

\* the OpenAI client of line 71 has no attribute ChatCompletion (line 248):
\* the call of the openai backend raises every time
CallsOf(backend) == IF backend = "openai" THEN {"fails"} ELSE Calls

\* ---- the ledger behind save_record
StoreDate == [y |-> 2024, m |-> 8, d |-> 15, yw |-> 4]

StoreRecords ==
    { [type |-> "profit", amount |-> 500, date |-> StoreDate, details |-> Phrase(<<"sale">>)],
      [type |-> "Profit", amount |-> 500, date |-> StoreDate, details |-> Phrase(<<"sale">>)],
      [type |-> "loss", amount |-> 500, date |-> StoreDate, details |-> Phrase(<<"sale">>)],
      [type |-> "profit", amount |-> 1250, date |-> StoreDate, details |-> Phrase(<<"sale">>)],
      [type |-> "profit", amount |-> 500, date |-> [StoreDate EXCEPT !.d = 16],
       details |-> Phrase(<<"sale">>)],
      [type |-> "profit", amount |-> 500, date |-> StoreDate,
       details |-> <<W("rent"), C(","), SP, W("paid")>>] }

InitStore ==
    /\ now \in {[y |-> 2024, m |-> 8, d |-> 15]} /\ padYear = TRUE /\ ledger = <<>> /\ calls = <<>> /\ header = "header" /\ temp = {}
    /\ op = "none" /\ arg = <<>> /\ ret = <<>>

SaveRecord ==
    \E r \in StoreRecords, writeOk \in BOOLEAN :
        /\ Len(ledger) < MaxLedger
        /\ op' = "save_record"
        /\ arg' = [record |-> r, writeOk |-> writeOk]
        /\ \E saved \in {save_record(ledger, r, writeOk)} :
             ret' = saved.ok /\ ledger' = saved.file
        /\ UNCHANGED <<temp, header, calls, now, padYear>>

\* the questions put to the ledger; the current date is 15 August 2024
Questions ==
    { Phrase(<<"What", "did", "I", "spend", "today">>), Phrase(<<"today">>),
      Phrase(<<"yesterday">>), Phrase(<<"August">>), Phrase(<<"march">>),
      Phrase(<<"profit", "in", "august">>), Phrase(<<"loss", "in", "march">>),
      Phrase(<<"how", "much">>), Phrase(<<"loss", "report">>), Phrase(<<"show">>),
      <<W("august"), SP, N(<<2, 0, 2, 3>>)>>,
      <<N(<<1, 6>>), C("/"), N(<<0, 8>>), C("/"), N(<<2, 0, 2, 4>>)>> }

\* use_llm and the backend the analyzer was built with, and what the
\* backend's call does when a report asks for a narration
Narrations ==
    {[use_llm |-> FALSE, backend |-> "simple", call |-> "fails"]}
    \cup UNION {{[use_llm |-> TRUE, backend |-> b, call |-> c] : c \in CallsOf(b)} :
                   b \in {"groq", "openai", "simple"}}

\* VoiceToDataAssistant.answer_query between the saves.  analyze reads the
\* file and writes nothing: _ensure_header_before_io finds the header the
\* constructor wrote
AnswerQuery ==
    \E q \in {Phrase(<<"today">>), Phrase(<<"August">>), Phrase(<<"show">>)},
       narrate \in {n \in Narrations : n.backend # "openai" /\ n.call # "another answer"} :
      \E f \in {FileRead(header, ledger, _parse_query(lower(q)))} :
        /\ op' = "answer_query"
        /\ arg' = [query |-> q, narrate |-> narrate]
        /\ header' = f.head /\ ledger' = f.file
        /\ ret' = analyze(f.file, q, narrate)
        /\ UNCHANGED <<temp, calls, now, padYear>>

NextStore == SaveRecord \/ ReadAllRecords \/ AnswerQuery

SpecStore == InitStore /\ [][NextStore]_vars

\* ---- questions put to a ledger that earlier saves have filled
\* records of two days of August 2024, of July 2024 and of August 2023
ReportRecords ==
    { [type |-> "profit", amount |-> 500, date |-> StoreDate, details |-> Phrase(<<"sale">>)],
      [type |-> "Profit", amount |-> 1250, date |-> StoreDate, details |-> Phrase(<<"sale">>)],
      [type |-> "loss", amount |-> 500, date |-> StoreDate, details |-> Phrase(<<"sale">>)],
      [type |-> "profit", amount |-> 500, date |-> [StoreDate EXCEPT !.d = 16],
       details |-> Phrase(<<"sale">>)],
      [type |-> "loss", amount |-> 725, date |-> [StoreDate EXCEPT !.y = 2023],
       details |-> Phrase(<<"rent">>)],
      [type |-> "profit", amount |-> 300, date |-> [StoreDate EXCEPT !.m = 7, !.d = 31],
       details |-> Phrase(<<"sale">>)] }

RECURSIVE SavedLedgers(_)
SavedLedgers(n) ==
    IF n = 0 THEN {<<>>}
    ELSE SavedLedgers(n - 1)
         \cup {save_record(file, r, TRUE).file : file \in SavedLedgers(n - 1), r \in ReportRecords}

InitReport ==
    /\ now \in {[y |-> 2024, m |-> 8, d |-> 15]} /\ padYear = TRUE
    /\ ledger \in SavedLedgers(MaxLedger) /\ calls = <<>> /\ header = "header" /\ temp = {}
    /\ op = "none" /\ arg = <<>> /\ ret = <<>>

\* QueryAnalyzer.analyze, for a question and then for the same question again
Analyze ==
    \E q \in Questions :
      \E f \in {FileRead(header, ledger, _parse_query(lower(q)))}, narrate \in Narrations :
        /\ op = "analyze" => q = arg.query
        /\ op' = "analyze"
        /\ arg' = [query |-> q, narrate |-> narrate, head |-> header]
        /\ header' = f.head /\ ledger' = f.file
        /\ ret' = analyze(f.file, q, narrate)
        /\ UNCHANGED <<temp, calls, now, padYear>>

NextReport == Analyze

SpecReport == InitReport /\ [][NextReport]_vars

\* ---- questions put to a file that was removed, emptied or replaced by a
\* file without the header line after the manager was built
Heads == {"header", "no_header", "empty", "no_file"}

InitFile ==
    /\ now \in {[y |-> 2024, m |-> 8, d |-> 15]} /\ padYear = TRUE
    /\ header \in Heads /\ temp = {}
    /\ ledger \in (IF header \in {"empty", "no_file"} THEN {<<>>}
                    ELSE IF header = "no_header" THEN SavedLedgers(MaxFileRecords) \ {<<>>}
                    ELSE SavedLedgers(MaxFileRecords))
    /\ calls = <<>>
    /\ op = "none" /\ arg = <<>> /\ ret = <<>>

NextFile == Analyze \/ ReadAllRecords

SpecFile == InitFile /\ [][NextFile]_vars

\* ---- save_record calls that interleave (two requests, or two processes on
\* the same file): the read of lines 76-90 and the append of lines 93-95 are
\* separate steps and nothing locks the file between them
Callers == 1..MaxCallers

RaceRecords ==
    { [type |-> "profit", amount |-> 500, date |-> StoreDate, details |-> Phrase(<<"sale">>)],
      [type |-> "Profit", amount |-> 500, date |-> StoreDate, details |-> Phrase(<<"sale">>)],
      [type |-> "loss", amount |-> 1250, date |-> StoreDate, details |-> Phrase(<<"rent">>)] }

Idle == [pc |-> "idle", record |-> NoRecord]

InitRace ==
    /\ now \in {[y |-> 2024, m |-> 8, d |-> 15]} /\ padYear = TRUE /\ ledger = <<>>
    /\ calls = [c \in Callers |-> Idle] /\ header = "header" /\ temp = {}
    /\ op = "none" /\ arg = <<>> /\ ret = <<>>

\* lines 72-90: the call reads the file and compares; a duplicate returns
\* False at once, else the call goes on to the append
SaveCheck(c) ==
    \E r \in RaceRecords :
        /\ calls[c].pc = "idle"
        /\ Len(ledger) < MaxLedger
        /\ IF IsDuplicate(ledger, r)
              THEN /\ op' = "save_record"
                   /\ arg' = [caller |-> c, record |-> r, writeOk |-> TRUE]
                   /\ ret' = FALSE
                   /\ UNCHANGED calls
              ELSE /\ calls' = [calls EXCEPT ![c] = [pc |-> "append", record |-> r]]
                   /\ UNCHANGED <<op, arg, ret>>
        /\ UNCHANGED <<temp, header, now, padYear, ledger>>

\* lines 92-99: the call appends its row and returns
SaveAppend(c) ==
    \E writeOk \in BOOLEAN :
        /\ calls[c].pc = "append"
        /\ op' = "save_record"
        /\ arg' = [caller |-> c, record |-> calls[c].record, writeOk |-> writeOk]
        /\ \E saved \in {AppendRecord(ledger, calls[c].record, writeOk)} :
             ret' = saved.ok /\ ledger' = saved.file
        /\ calls' = [calls EXCEPT ![c] = Idle]
        /\ UNCHANGED <<temp, header, now, padYear>>

NextRace == \E c \in Callers : SaveCheck(c) \/ SaveAppend(c)

SpecRace == InitRace /\ [][NextRace]_vars

\* ---- narration
MonthlyQuery == Phrase(<<"Generate", "a", "monthly", "report">>)

SummaryQueries == {MonthlyQuery, Phrase(<<"What", "did", "I", "spend">>)}

RecordLists == {<<>>} \cup UNION {[1..k -> StoreRecords] : k \in 1..MaxSummaryRecords}

InitSummary ==
    /\ now \in {[y |-> 2024, m |-> 8, d |-> 15]} /\ padYear = TRUE /\ ledger = <<>>
    /\ calls = <<>> /\ header = "header" /\ temp = {}
    /\ op = "none" /\ arg = <<>> /\ ret = <<>>

GenerateSummary ==
    \E records \in RecordLists, query \in SummaryQueries,
       summary_type \in {"general", "monthly"}, backend \in Backends :
      \E call \in CallsOf(backend) :
        /\ op' = "generate_summary"
        /\ arg' = [records |-> records, query |-> query, summary_type |-> summary_type,
                   backend |-> backend, call |-> call]
        /\ ret' = generate_summary(records, query, summary_type, backend, call)
        /\ UNCHANGED <<temp, header, calls, now, padYear, ledger>>

NextSummary == GenerateSummary

SpecSummary == InitSummary /\ [][NextSummary]_vars

\* ------------------------------------------------------------------ claims
\* year, month and day of a resolved date, whatever the width of the year field
SameDay(v, y, m, d) == v.y = y /\ v.m = m /\ v.d = d

RelativeWords == {"today", "yesterday", "tomorrow"}

\* C1: extract is total: for every text and every current date, the first and
\* the last day of a month included, it returns a record with a type, an
\* amount, a date and details and never raises, 'yesterday' and 'tomorrow'
\* included.
C1_ExtractTotal ==
    ret.record.set
    => /\ ~ret.record.rec.raised
       /\ ret.record.rec.type \in {"profit", "loss"}
       /\ ret.record.rec.date # NoDate
       /\ ret.record.rec.details # <<>>

\* the '$N' tokens of a text: the positions of a '$' with a digit run after it
DollarTokens(t) == {i \in 1..Len(t) : IsC(t[i], "$") /\ IsN(At(t, i + 1))}

\* C2: for a text with an explicit $N token, _extract_amount returns N (commas
\* removed), whatever else the text holds.  N is read off the text as written.
C2_DollarAmountExact ==
    (op = "_extract_amount" /\ DollarTokens(arg) # {})
    => \E i \in DollarTokens(arg) : ret.amount = Float100(AmountAt(lower(arg), i + 1))

\* a day and a month with no year after them, at the digit run i:
\* '12 August', '5th may'; the month is the run after the blank at k
DayMonthAt(t, i) ==
    /\ IsNumLen(At(t, i), 1, 2) /\ ~IsC(At(t, i - 1), "/")
    /\ IsSp(At(t, SkipOrdinal(t, i + 1)))
    /\ IsWordIn(At(t, SkipOrdinal(t, i + 1) + 1), DOMAIN month_names)
    /\ ~(IsSp(At(t, SkipOrdinal(t, i + 1) + 2)) /\ IsN(At(t, SkipOrdinal(t, i + 1) + 3)))

DayMonthTokens(t) == {i \in 1..Len(t) : DayMonthAt(t, i)}

\* the question q is a date_query for one of its day-and-month tokens, in the
\* current year
DayMonthQuery(q, intent) ==
    /\ intent.kind = "date_query"
    /\ \E i \in DayMonthTokens(q) :
          SameDay(intent.params.date, now.y,
                  month_names[q[SkipOrdinal(q, i + 1) + 1].s], IntOf(q[i].d))

\* C3: 'How much loss did I have on 12 August?' is a date_query with type loss
\* and the date <current year>-08-12; in general a question naming a day and a
\* month without a year, and with no relative keyword, is a date_query whose
\* date is that day of the current year.
C3_DayMonthQuestion ==
    (ret.intent.set /\ DayMonthTokens(lower(arg)) # {} /\ ~HasWord(lower(arg), RelativeWords))
    => /\ DayMonthQuery(lower(arg), ret.intent)
       /\ (arg = Q12August => /\ ret.intent.params.type = "loss"
                              /\ SameDay(ret.intent.params.date, now.y, 8, 12))

\* C4: 'Generate a monthly profit/loss report' is a monthly_report with empty
\* params: no month, no year, no date and no type.
C4_MonthlyReportQuestion ==
    (ret.intent.set /\ arg = QMonthlyReport)
    => /\ ret.intent.kind = "monthly_report"
       /\ ret.intent.params = NoParams

\* a date token other than 'today': another relative keyword, a numeric A/B/Y
\* date or a month-name date
OtherDateToken(t) ==
    \/ HasWord(t, {"yesterday", "tomorrow"})
    \/ \E p \in 0..2 : DateSearch(t, p).ok

\* C5: when 'today' occurs together with any other date token, in any order,
\* the resolved date is the current date, in _extract_date and in the
\* params.date of _parse_query.
C5_TodayWins ==
    (/\ ret.date.set /\ ret.intent.set
     /\ HasWord(lower(arg), {"today"}) /\ OtherDateToken(lower(arg)))
    => /\ ~ret.date.raised
       /\ SameDay(ret.date.val, now.y, now.m, now.d)
       /\ SameDay(ret.intent.params.date, now.y, now.m, now.d)

\* the year a numeric token's year field stands for: two digits are 20Y below
\* 50 and 19Y from 50 on, more digits are the year as written
ClaimedYear(digits) ==
    IF Len(digits) = 2
       THEN (IF IntOf(digits) < 50 THEN 2000 + IntOf(digits) ELSE 1900 + IntOf(digits))
       ELSE IntOf(digits)

\* the token A/B/Y is resolved to `date`: month A, day B when that is a
\* calendar date, else day A, month B when that is one
ResolvedAs(date, A, B, Y) ==
    /\ ValidDate(Y, A, B) => SameDay(date, Y, A, B)
    /\ (~ValidDate(Y, A, B) /\ ValidDate(Y, B, A)) => SameDay(date, Y, B, A)

\* the token A/B/Y is resolved to the two dates as claimed, and alike
BothResolvedAs(extracted, classified, A, B, Y) ==
    /\ ResolvedAs(extracted, A, B, Y)
    /\ ResolvedAs(classified, A, B, Y)
    /\ (ValidDate(Y, A, B) \/ ValidDate(Y, B, A)) => extracted = classified

\* the numeric token tok of the text t is resolved to both dates alike
NumericResolved(t, tok, extracted, classified) ==
    BothResolvedAs(extracted, classified, tok.g1, tok.g2, ClaimedYear(t[tok.last].d))

\* C6: a numeric A/B/Y token is month A, day B whenever that is a calendar
\* date, and day A, month B only when the first reading is not one and the
\* second is; a two-digit year is 20Y below 50 and 19Y otherwise; _extract_date
\* and _parse_query resolve the token to the same date ('13/02/2024' is
\* 2024-02-13).  The token is the first one of a text with no relative keyword
\* and no month name.
C6_NumericDate ==
    (/\ ret.date.set /\ ret.intent.set /\ DateSearch(lower(arg), 0).ok
     /\ ~HasWord(lower(arg), RelativeWords) /\ ~HasWord(lower(arg), DOMAIN month_names))
    => NumericResolved(lower(arg), DateSearch(lower(arg), 0),
                       ret.date.val, ret.intent.params.date)

C6_Witness ==
    /\ arg = NumToken(<<1, 3>>, <<0, 2>>, <<2, 0, 2, 4>>)
    /\ ret.date.set /\ ret.intent.set
    /\ SameDay(ret.date.val, 2024, 2, 13)
    /\ SameDay(ret.intent.params.date, 2024, 2, 13)

\* the base the claim names: the amount of an explicit phrase, read as written,
\* else the first bare amount of the normalized text
ClaimedBase(t) ==
    Float100(FirstOk(BaseAmount(lower(t), 1),
                     FirstOk(BaseAmount(_normalize_number_words(lower(t)), 1),
                             FirstAmount(_normalize_number_words(lower(t))))))

\* the amount is base * p / 100 rounded to 2 decimals, p the percentage pm
PercentOfClaimedBase(amount, base, pm) ==
    pm.ok => amount = Round2(base * PercentNum(pm), 100 * PercentDen(pm))

\* C7: with a percentage construct of percentage p present, the amount is
\* base * p / 100 rounded to 2 decimals, base being the amount of the explicit
\* phrase if there is one and else the first bare amount;
\* 'profit is 10% of invested 1000' gives 100.00.
C7_PercentOfBase ==
    op = "_extract_amount"
    => /\ PercentOfClaimedBase(ret.amount, ClaimedBase(arg),
                               percentage_match(_normalize_number_words(lower(arg))))
       /\ (arg = Phrase(<<"profit", "is">>) \o <<SP, N(<<1, 0>>), C("%"), SP>>
                 \o Phrase(<<"of", "invested">>) \o <<SP, N(<<1, 0, 0, 0>>)>>
             => ret.amount = 10000)

Front(q) == SubSeq(q, 1, Len(q) - 1)

RECURSIVE RunningAfter(_)
\* the running value after a phrase: units and tens add to it, a scale word
\* resets it, 'and' leaves it
RunningAfter(ws) ==
    IF ws = <<>> THEN 0
    ELSE LET w == ws[Len(ws)].s
             r == RunningAfter(Front(ws))
         IN  IF w \in DOMAIN units THEN r + units[w]
             ELSE IF w \in DOMAIN tens THEN r + tens[w]
             ELSE IF w \in DOMAIN scales THEN 0
             ELSE r

RECURSIVE TotalAfter(_)
\* the total after a phrase: each scale word adds (running, or 1 if it is 0) * scale
TotalAfter(ws) ==
    IF ws = <<>> THEN 0
    ELSE LET w == ws[Len(ws)].s
             r == RunningAfter(Front(ws))
         IN  IF w \in DOMAIN scales
                THEN TotalAfter(Front(ws)) + (IF r = 0 THEN 1 ELSE r) * scales[w]
                ELSE TotalAfter(Front(ws))

\* C8: for every sequence of unit, tens, scale and 'and' words,
\* convert_number_phrase consumes all of it and returns total + running;
\* 'two lakh' is 200000 and 'one hundred and five' is 105.
C8_ConvertNumberPhrase ==
    (op = "convert_number_phrase" /\ \A i \in 1..Len(arg) : IsNumberWord(arg[i]))
    => /\ ret.number = TotalAfter(arg) + RunningAfter(arg)
       /\ ret.consumed = Len(arg)
       /\ (arg = <<W("two"), W("lakh")>> => ret.number = 200000)
       /\ (arg = <<W("one"), W("hundred"), W("and"), W("five")>> => ret.number = 105)

C8_Witness ==
    /\ op = "convert_number_phrase"
    /\ arg = <<W("one"), W("hundred"), W("and"), W("five")>>
    /\ ret.number = 105

\* a record as the claim wants it: a known type, a non-negative amount and a
\* valid calendar date written with a four-digit year
WellFormed(r) ==
    /\ r.type \in {"profit", "loss"}
    /\ r.amount >= 0
    /\ ValidDate(r.date.y, r.date.m, r.date.d)
    /\ r.date.yw = 4

\* C9: every record extract returns, and so every record of the ledger after
\* any sequence of process_transcription calls on an empty ledger, has a type
\* in {profit, loss}, an amount >= 0 and a valid calendar date in the form
\* YYYY-MM-DD.
C9_RecordInvariants ==
    /\ (op = "process_transcription" /\ ~ret.raised) => WellFormed(ret.json)
    /\ \A i \in 1..Len(ledger) : WellFormed(read_all_records(ledger)[i])

\* the tuple of the claim: type compared case-insensitively, amount, date, details
SameTuple(a, b) ==
    /\ LowerType(a.type) = LowerType(b.type)
    /\ a.amount = b.amount /\ a.date = b.date /\ a.details = b.details

\* a save_record step: False and the ledger as it was on a stored record with
\* the same tuple or on a failed write, else one more record and True
C10_SaveStep ==
    op' = "save_record"
    => LET stored == read_all_records(ledger)
           after == read_all_records(ledger')
       IN  IF (\E i \in 1..Len(stored) : SameTuple(stored[i], arg'.record)) \/ ~arg'.writeOk
              THEN ret' = FALSE /\ ledger' = ledger
              ELSE /\ ret' = TRUE
                   /\ Len(ledger') = Len(ledger) + 1
                   /\ SubSeq(ledger', 1, Len(ledger)) = ledger
                   /\ SameTuple(after[Len(after)], arg'.record)

C10_NoDuplicates ==
    LET stored == read_all_records(ledger) IN
    \A i, j \in 1..Len(stored) : i # j => ~SameTuple(stored[i], stored[j])

\* C10: save_record never raises: it returns False and leaves the ledger
\* unchanged when a stored record has the same (type case-insensitively,
\* amount, date, details) tuple or when the write fails, and otherwise appends
\* exactly one record and returns True; so after any sequence of saves on an
\* empty ledger no two stored records have the same tuple.
C10_SaveRecord == [][C10_SaveStep]_vars /\ []C10_NoDuplicates

C10_Witness ==
    /\ op = "save_record" /\ ret = FALSE /\ arg.writeOk
    /\ arg.record.type = "Profit"
    /\ \E i \in 1..Len(ledger) : read_all_records(ledger)[i].type = "profit"
                                 /\ SameTuple(read_all_records(ledger)[i], arg.record)

\* C11: the duplicate check of save_record is a read followed by a separate
\* append with no lock.  A call that has passed the check appends its row to
\* the file as it is at that moment, also when another call has stored the
\* same record in between, so two interleaved calls for one record can both
\* store it.
C11_AppendStep ==
    \A c \in Callers :
        (calls[c].pc = "append" /\ calls'[c].pc = "idle" /\ arg'.writeOk)
        => /\ ret' = TRUE
           /\ ledger' = Append(ledger, CsvRow(calls[c].record))

C11_CheckThenAppend == [][C11_AppendStep]_vars

\* two stored records with one key
C11_Witness ==
    \E i, j \in 1..Len(ledger) :
        /\ i < j
        /\ RecordKey(read_all_records(ledger)[i]) = RecordKey(read_all_records(ledger)[j])

\* C12: a record produced by extract and accepted by save_record is returned
\* by the following read_all_records with equal type, date and details and a
\* numerically equal amount, after the records that were saved before it,
\* which are returned as before.
C12_SavedStep ==
    (op' = "process_transcription" /\ ret'.message = "Record saved successfully")
    => LET before == read_all_records(ledger)
           after == read_all_records(ledger')
           last == after[Len(after)]
       IN  /\ Len(after) = Len(before) + 1
           /\ \A i \in 1..Len(before) : after[i] = before[i]
           /\ last.type = ret'.json.type /\ last.amount = ret'.json.amount
           /\ last.date = ret'.json.date /\ last.details = ret'.json.details

C12_SaveThenRead == [][C12_SavedStep]_vars

\* a record with a fraction in its amount is read back behind one whose
\* details are written quoted
C12_Witness ==
    /\ op = "process_transcription" /\ ret.message = "Record saved successfully"
    /\ Len(ledger) >= 2
    /\ ret.json.amount % 100 # 0
    /\ \E i \in 1..(Len(ledger) - 1) : ledger[i].details.quoted

\* the sum of the amounts of the records of one type
RECURSIVE SumOfType(_, _)
SumOfType(records, type) ==
    IF records = <<>> THEN 0
    ELSE (IF LowerType(records[1].type) = type THEN records[1].amount ELSE 0)
         + SumOfType(Tail(records), type)

\* C17: when the call to the narration backend fails, for every backend (groq,
\* ollama, openai, huggingface), generate_summary returns the template summary
\* whose total profit, total loss and net are computed from the supplied
\* records; it never returns a bare error string in place of the summary.
C17_FallbackIsTemplate ==
    (/\ op = "generate_summary" /\ arg.call = "fails" /\ arg.records # <<>>
     /\ arg.backend \in {"groq", "ollama", "openai", "huggingface"})
    => /\ ret.form = "template"
       /\ ret.of.figures.total_profit = SumOfType(arg.records, "profit")
       /\ ret.of.figures.total_loss = SumOfType(arg.records, "loss")
       /\ ret.of.figures.net
            = SumOfType(arg.records, "profit") - SumOfType(arg.records, "loss")

\* s is the beginning of t
IsPrefix(s, t) == Len(s) <= Len(t) /\ SubSeq(t, 1, Len(s)) = s

\* C13: the ledger is append-only: over any save, read or query step the
\* records read_all_records returned before the step are a prefix of the
\* records it returns after it, so an earlier reading is a prefix of any later
\* one and no stored record is updated, deleted or moved.
C13_AppendOnly ==
    [][IsPrefix(read_all_records(ledger), read_all_records(ledger'))]_vars

\* a question answered from a ledger of two records, a save behind it
C13_Witness ==
    /\ op = "answer_query" /\ Len(ledger) >= 2 /\ ~ret.json.null

\* the records a reply is computed from: those of the month, of the date, of
\* the type the classified question names
Fetched(file, intent) ==
    SelectSeq(read_all_records(file),
              LAMBDA r :
                /\ intent.kind \in {"monthly_report", "type_query"}
                   => (intent.params.month # 0
                       => r.date.m = intent.params.month /\ r.date.y = intent.params.year)
                /\ intent.kind = "date_query" => r.date = intent.params.date
                /\ intent.kind \in {"date_query", "type_query", "summary"}
                   => (intent.params.type \in {"profit", "loss"}
                       => LowerType(r.type) = intent.params.type))

NoRecordsReply(intent, reply) ==
    /\ intent.kind = "unknown" => reply.text.form = "help" /\ reply.json.null
    /\ (intent.kind # "unknown" /\ Fetched(ledger, intent) = <<>>)
       => reply.text.form = "no_records" /\ reply.json.null

\* C14: for each of the kinds monthly_report, date_query, type_query and
\* summary, when the fetched (and type-filtered) record set is empty, analyze
\* returns a 'no records found' text and a null structured report; for kind
\* unknown it returns the help text and a null structured report.
C14_NoRecords ==
    op = "analyze" => NoRecordsReply(_parse_query(lower(arg.query)), ret)

\* a type-filtered summary of a ledger that holds records of the other type only
C14_Witness ==
    /\ op = "analyze" /\ arg.query = Phrase(<<"loss", "report">>)
    /\ ledger # <<>> /\ ret.text.form = "no_records" /\ ret.json.null

\* C15: two calls of analyze with the same question, the same current date
\* and an unchanged ledger return the same structured report, whichever
\* narration backend is configured and whatever the backend answers.
C15_SameReportStep ==
    (op = "analyze" /\ op' = "analyze" /\ arg'.query = arg.query
     /\ ledger' = ledger /\ now' = now)
    => ret'.json = ret.json

C15_Deterministic == [][C15_SameReportStep]_vars

\* a monthly report whose text is the answer of the backend
C15_Witness ==
    /\ op = "analyze" /\ arg.narrate.use_llm /\ arg.narrate.backend = "groq"
    /\ ret.text.form = "narration" /\ ret.text.of = "another answer"
    /\ ~ret.json.null /\ ret.json.report.summary.profit_count >= 1

\* C18: a transcription failure always surfaces as a raised error: neither
\* transcribe_file nor transcribe_microphone returns an empty string on
\* failure, so no failed transcription is passed to process_transcription and
\* saved as a record.
C18_FailureStep ==
    (op' \in {"process_voice_file", "process_voice_microphone"}
     /\ arg'.heard.outcome # "ok")
    => ret'.raised /\ ledger' = ledger

C18_FailureRaises == [][C18_FailureStep]_vars

\* the kind and params of _parse_query after its first n rules
RECURSIVE AfterRule(_, _)
AfterRule(q, n) ==
    IF n = 0 THEN [kind |-> "unknown", params |-> NoParams]
    ELSE IF n = 1 THEN RuleRelative(q, AfterRule(q, 0))
    ELSE IF n = 2 THEN RuleMonth(q, AfterRule(q, 1))
    ELSE IF n = 3 THEN RuleDate(q, AfterRule(q, 2))
    ELSE IF n = 4 THEN RuleAmount(q, AfterRule(q, 3))
    ELSE RuleReport(q, AfterRule(q, 4))

\* every parameter that is set in a is the same in b
ParamsKept(a, b) ==
    /\ a.date # NoDate => b.date = a.date
    /\ a.type # "absent" => b.type = a.type
    /\ a.month # 0 => b.month = a.month
    /\ a.year # 0 => b.year = a.year

KindKept(a, b) == a.kind # "unknown" => b.kind = a.kind

\* C19 as claimed: in _parse_query, once a rule has set the intent kind or a
\* parameter, no later rule changes it; in particular the kind and the
\* month/year set by the month-name rule are not overridden when the
\* explicit-date rule also matches the same question.
C19_NoRuleOverrides ==
    ret.intent.set
    => \A n \in 1..5 :
          /\ KindKept(AfterRule(lower(arg), n - 1), AfterRule(lower(arg), n))
          /\ ParamsKept(AfterRule(lower(arg), n - 1).params, AfterRule(lower(arg), n).params)

\* the one change of an established kind: the explicit-date rule turns the
\* kind of the month-name rule into date_query
DateOverMonth(n, a, b) ==
    n = 3 /\ a.kind \in {"monthly_report", "type_query"} /\ b.kind = "date_query"

\* C19 as amended: once a rule has set a parameter no later rule changes it,
\* and the kind, once set, is changed by one rule only: the explicit-date rule
\* replaces the monthly_report or type_query of the month-name rule by
\* date_query (month and year stay in params).  The kind and date of the
\* relative-date rule are never changed.
C19_OnlyDateOverridesMonth ==
    ret.intent.set
    => /\ \A n \in 1..5 :
            /\ ParamsKept(AfterRule(lower(arg), n - 1).params, AfterRule(lower(arg), n).params)
            /\ \/ KindKept(AfterRule(lower(arg), n - 1), AfterRule(lower(arg), n))
               \/ DateOverMonth(n, AfterRule(lower(arg), n - 1), AfterRule(lower(arg), n))
       /\ AfterRule(lower(arg), 1).kind # "unknown"
          => ret.intent.kind = "date_query"
             /\ ret.intent.params.date = AfterRule(lower(arg), 1).params.date
       /\ AfterRule(lower(arg), 5) = [kind |-> ret.intent.kind, params |-> ret.intent.params]

\* a question with a month name and an explicit date: a date_query that
\* still carries the month and year of the month-name rule
C19_Witness ==
    /\ ret.intent.set /\ ret.intent.kind = "date_query"
    /\ ret.intent.params.month = 8 /\ ret.intent.params.year = 2025
    /\ ret.intent.params.date.d = 12

\* the question has no relative keyword, no month name and no date that parses
NoDateSignal(q) ==
    /\ relative_date_match(q) = "" /\ month_match(q) = ""
    /\ _extract_date_from_match(date_match(q)) = NoDate

\* C20: for a question with no relative keyword, no month name and no
\* parsable date that contains an amount-question keyword (how much, what,
\* total, amount, sum, did, have), _parse_query returns kind summary with
\* params.type = null, also when a profit or loss keyword is present; the
\* type-filtered summary of the report-keyword rule is reached only when no
\* amount-question keyword is present.
C20_AmountQuestionSummary ==
    ret.intent.set
    => /\ (NoDateSignal(lower(arg)) /\ amount_pattern(lower(arg)))
          => ret.intent.kind = "summary" /\ ret.intent.params.type = "none"
       /\ (ret.intent.kind = "summary" /\ ret.intent.params.type \in {"profit", "loss"})
          => ~amount_pattern(lower(arg))

\* 'how much' next to a profit or loss keyword
C20_Witness ==
    /\ ret.intent.set /\ ret.intent.kind = "summary" /\ ret.intent.params.type = "none"
    /\ \E i \in 1..Len(arg) : WordAt(lower(arg), i, {"how"})
    /\ HasWord(lower(arg), profit_pattern \cup loss_pattern)

\* the positions of the month names of the question
MonthNames(q) == {i \in 1..Len(q) : WordAt(q, i, DOMAIN month_names)}

\* the positions of the numbers 2000..2099 of the question
Years20xx(q) ==
    {i \in 1..Len(q) : /\ IsN(q[i]) /\ Len(q[i].d) = 4
                        /\ IntOf(q[i].d) \in 2000..2099
                        /\ ~IsW(At(q, i - 1)) /\ ~IsW(At(q, i + 1))}

\* the question has a month name, no relative keyword and no full date
MonthQuestion(q) ==
    /\ MonthNames(q) # {}
    /\ ~HasWord(q, RelativeWords)
    /\ date_match(q).kind = "none"

\* month and year as the month-name rule is said to set them
MonthAndYear(q, params) ==
    /\ params.month = month_names[q[Min(MonthNames(q))].s]
    /\ params.year = IF Years20xx(q) = {} THEN now.y ELSE IntOf(q[Min(Years20xx(q))].d)

DatedIn(records, year, month) ==
    SelectSeq(records, LAMBDA r : r.date.y = year /\ r.date.m = month)

\* the records of a list that have one type
RecordsOfType(records, type) == SelectSeq(records, LAMBDA r : LowerType(r.type) = type)

\* the records a monthly_report or a summary is computed from
FetchedFor(records, intent) ==
    IF intent.kind = "monthly_report"
       THEN IF intent.params.month # 0 /\ intent.params.year # 0
               THEN DatedIn(records, intent.params.year, intent.params.month)
               ELSE records
    ELSE IF intent.params.type \in {"profit", "loss"}
       THEN RecordsOfType(records, intent.params.type)
       ELSE records

\* the five figures of a structured report are those of the fetched records
FiguresOf(summary, fetched) ==
    /\ summary.total_profit = SumOfType(fetched, "profit")
    /\ summary.total_loss = SumOfType(fetched, "loss")
    /\ summary.net = summary.total_profit - summary.total_loss
    /\ summary.profit_count = Len(RecordsOfType(fetched, "profit"))
    /\ summary.loss_count = Len(RecordsOfType(fetched, "loss"))

\* the reply of a monthly_report or a summary computed from the fetched records
ReportOf(intent, reply, fetched) ==
    /\ reply.json.null <=> fetched = <<>>
    /\ ~reply.json.null
       => /\ FiguresOf(reply.json.report.summary, fetched)
          /\ intent.kind = "monthly_report"
             => /\ reply.json.report.profits = RecordsOfType(fetched, "profit")
                /\ reply.json.report.losses = RecordsOfType(fetched, "loss")

\* C22: for the monthly_report and summary kinds over any ledger content, the
\* structured report has total_profit = sum of amounts of the fetched profit
\* records, total_loss = sum of amounts of the fetched loss records, net =
\* total_profit - total_loss, and profit_count and loss_count equal to the
\* sizes of those two sets; with month and year set, the fetched set of
\* monthly_report is exactly the records dated in that month.
C22_ReportFigures ==
    (op = "analyze" /\ _parse_query(lower(arg.query)).kind \in {"monthly_report", "summary"})
    => ReportOf(_parse_query(lower(arg.query)), ret,
                FetchedFor(read_all_records(ledger), _parse_query(lower(arg.query))))

\* a monthly report of August 2024 over a ledger that also holds a record of
\* another month or year
C22_Witness ==
    /\ op = "analyze" /\ arg.query = Phrase(<<"August">>)
    /\ ~ret.json.null
    /\ ret.json.report.summary.profit_count + ret.json.report.summary.loss_count < Len(ledger)
    /\ ret.json.report.summary.profit_count >= 1 /\ ret.json.report.summary.loss_count >= 1

\* the question names a type for its date
TypeFilterSet(intent) == intent.params.type \in {"profit", "loss"}

\* the records of the queried date, and of the filter type when one is set
RecordsOfDate(records, intent) ==
    SelectSeq(records,
              LAMBDA r : /\ r.date = intent.params.date
                         /\ TypeFilterSet(intent) => LowerType(r.type) = intent.params.type)

\* what a non-null date_query report holds
DateReportOf(intent, report, all) ==
    /\ report.date = intent.params.date
    /\ report.summary.total.set <=> TypeFilterSet(intent)
    /\ report.summary.net.set <=> ~TypeFilterSet(intent)
    /\ report.records = RecordsOfDate(all, intent)
    /\ report.summary.count = Len(RecordsOfDate(all, intent))

\* C23: in every non-null date_query report, summary.total is non-null
\* exactly when a type filter is set and summary.net is non-null exactly when
\* no type filter is set; records contains only records of the queried date
\* (and of the filter type when set) and summary.count equals the number of
\* those records.
C23_DateReport ==
    (/\ op = "analyze" /\ _parse_query(lower(arg.query)).kind = "date_query"
     /\ ~ret.json.null)
    => DateReportOf(_parse_query(lower(arg.query)), ret.json.report, read_all_records(ledger))

\* a loss asked for on a day that has a profit too, in a ledger with a record
\* of another day
C23_Witness ==
    /\ op = "analyze" /\ arg.query = Phrase(<<"What", "did", "I", "spend", "today">>)
    /\ ~ret.json.null /\ ret.json.report.summary.total.set
    /\ \E i, j \in 1..Len(ledger) :
          /\ ledger[i].date = ret.json.report.date /\ LowerType(ledger[i].type) = "profit"
          /\ ledger[j].date # ret.json.report.date

\* the keywords of the two sets
ProfitKeywords ==
    {"profit", "gained", "earned", "received", "income", "revenue", "made", "won",
     "in", "plus", "positive"}

LossKeywords ==
    {"loss", "lost", "spent", "expense", "paid", "cost", "negative", "minus", "out", "down"}

\* the positions of the words of a set in a text
KeywordsAt(t, ws) == {i \in 1..Len(t) : WordAt(t, i, ws)}

\* C24: _extract_type returns profit for every text that contains a profit
\* keyword, also when a loss keyword occurs too or occurs earlier; it returns
\* loss when only loss keywords occur and loss when no keyword of either set
\* occurs.
C24_ProfitFirst ==
    op = "_extract_type"
    => /\ KeywordsAt(lower(arg), ProfitKeywords) # {} => ret = "profit"
       /\ KeywordsAt(lower(arg), ProfitKeywords) = {} => ret = "loss"

\* a loss keyword and then a keyword of the second profit pattern
C24_Witness ==
    /\ op = "_extract_type" /\ ret = "profit"
    /\ \E i \in KeywordsAt(arg, LossKeywords), j \in KeywordsAt(arg, {"in", "positive"}) : i < j
    /\ KeywordsAt(arg, ProfitKeywords \ {"in", "positive"}) = {}

\* the nearest position before i (dir = -1) or after i (dir = 1) that holds no
\* blank, or 0
Neighbour(t, i, dir) ==
    IF IsSp(At(t, i + dir)) /\ (i + 2 * dir) \in 1..Len(t) THEN i + 2 * dir
    ELSE IF (i + dir) \in 1..Len(t) /\ ~IsSp(t[i + dir]) THEN i + dir ELSE 0

\* a number word other than 'and'
IsValueWord(a) == IsNumberWord(a) /\ a.s # "and"

\* the positions of an 'and' that stands outside any number phrase, with no
\* number before it in the text
PlainAnds(t) ==
    {i \in 1..Len(t) :
        /\ IsW(t[i]) /\ t[i].s = "and"
        /\ Neighbour(t, i, -1) # 0 => ~IsNumberWord(t[Neighbour(t, i, -1)])
        /\ Neighbour(t, i, 1) # 0 => ~IsNumberWord(t[Neighbour(t, i, 1)])
        /\ \A j \in 1..(i - 1) : ~IsN(t[j]) /\ ~IsValueWord(t[j])}

\* the text with the word at i taken out, and one blank next to it
WithoutWord(t, i) ==
    IF IsSp(At(t, i + 1)) /\ i + 1 <= Len(t) THEN SubSeq(t, 1, i - 1) \o SubSeq(t, i + 2, Len(t))
    ELSE IF IsSp(At(t, i - 1)) /\ i > 1 THEN SubSeq(t, 1, i - 2) \o SubSeq(t, i + 1, Len(t))
    ELSE SubSeq(t, 1, i - 1) \o SubSeq(t, i + 1, Len(t))

\* the digit tokens of a text
DigitTokens(t) == SelectSeq(t, LAMBDA a : IsN(a))

\* C25: the word 'and' is a no-op in spoken-number normalization: inside a
\* number phrase it adds no value, and standing outside any number phrase it
\* produces no digit token, so a text whose only numbers come after a plain
\* 'and' (e.g. 'bread and butter cost 50') yields the same amount as the text
\* with 'and' removed.
C25_AndIsNoOp ==
    op = "_extract_amount"
    => \A i \in PlainAnds(lower(arg)) :
          /\ DigitTokens(_normalize_number_words(lower(arg)))
               = DigitTokens(_normalize_number_words(WithoutWord(lower(arg), i)))
          /\ ret.amount = _extract_amount(WithoutWord(arg, i))

\* a text of digits, signs and plain words: no '%' and no spoken number in it
WrittenAmountsOnly(t) ==
    \A i \in 1..Len(t) : ~IsC(t[i], "%") /\ ~IsNumberWord(t[i])

\* the value of the first currency amount of a text, read as it is written
FirstWrittenAmount(t) == IF FirstAmount(t).ok THEN Float100(FirstAmount(t)) ELSE 0

\* C26: when no percentage construct is present, _extract_amount returns the
\* value of the first currency amount in the text, reading an amount written
\* with thousands separators ('1,000') or with a two-decimal fraction
\* ('12.50') as one number (1000, 12.5), with or without a '$' prefix or a
\* trailing unit word, and returns 0.0 when the text has no amount.
C26_FirstAmount ==
    (op = "_extract_amount" /\ WrittenAmountsOnly(lower(arg)))
    => ret.amount = FirstWrittenAmount(lower(arg))

\* C27: answering a question never changes the ledger: for every question and
\* every ledger content, the record sequence returned by read_all_records is
\* the same before and after analyze / answer_query, for all five intent
\* kinds.
C27_AnswerStep ==
    op' \in {"analyze", "answer_query"} => read_all_records(ledger') = read_all_records(ledger)

C27_LedgerUnchanged == [][C27_AnswerStep]_vars

\* a question that made read_all_records write the missing header line in
\* front of the records
C27_Witness ==
    /\ op = "analyze" /\ arg.query = Phrase(<<"how", "much">>)
    /\ arg.head = "no_header" /\ header = "header" /\ Len(ledger) = MaxFileRecords
    /\ ~ret.json.null /\ ret.json.report.total_records = Len(ledger)

\* the two messages of process_transcription
Saved == "Record saved successfully"
NotSaved == "Data extracted but failed to save to CSV"

\* the reply carries the extracted record, and says saved exactly when the
\* step appended a row
ReplyTellsAppend(text, reply, before, after) ==
    /\ reply.json = extract(text)
    /\ reply.message \in {Saved, NotSaved}
    /\ reply.message = Saved <=> Len(after) = Len(before) + 1
    /\ reply.message = NotSaved <=> after = before

\* C28: process_transcription always returns the extracted record under
\* 'json'; its message is 'Record saved successfully' exactly when a row was
\* appended, so submitting the same utterance twice on the same day appends
\* one row only and the second call reports 'Data extracted but failed to
\* save to CSV'.
C28_ReplyStep ==
    op' = "process_transcription"
    => /\ ~ret'.raised
       /\ ReplyTellsAppend(arg'.text, ret', ledger, ledger')
       /\ (op = "process_transcription" /\ arg.text = arg'.text /\ ret.message = Saved)
          => ret'.message = NotSaved /\ ledger' = ledger

C28_ReplyTellsAppend == [][C28_ReplyStep]_vars

\* the API path of the call failed: a request raised, or the last answer was
\* not a 200 answer with a JSON body
ApiFailed ==
    /\ calls.requests >= 1
    /\ calls.pc \in {"except", "returned", "raised"}
    /\ calls.status \notin {"200 text", "200 other"}

\* C29: one transcribe_file call in API mode sends at most two API requests
\* (the second only after a 503 answer to the first), and after any API
\* failure it attempts the local Whisper model once before raising; it never
\* returns without either a transcription or a raised error.
C29_TranscribeFile ==
    ~arg.use_local
    => /\ calls.requests <= 2
       /\ calls.requests = 2 => arg.first = "503"
       /\ calls.fallbacks <= 1
       /\ (ApiFailed /\ calls.pc \in {"returned", "raised"}) => calls.fallbacks = 1
       /\ ~ApiFailed => calls.fallbacks = 0
       /\ calls.pc = "returned" => ~ret.raised /\ ret.text # ""
       /\ calls.pc = "raised" => ret.raised
       /\ calls.pc \notin {"returned", "raised"} => ENABLED NextTranscribe

\* two requests, both answered 503, and the local model failed: the call raised
C29_Witness ==
    /\ ~arg.use_local /\ calls.requests = 2 /\ calls.status = "503"
    /\ calls.fallbacks = 1 /\ calls.pc = "raised" /\ ret.raised

\* C30: every temporary audio file an operation creates is removed by the
\* time the operation returns or raises: the upload file of the /transcribe
\* endpoint and the 'temp_recording.wav' file of transcribe_microphone, on the
\* success path and on every failure path of the transcription.
C30_NoTempFileLeft ==
    op \in {"transcribe_audio", "process_voice_microphone"} => temp = {}

====
